---- MODULE Spec2Model ----
(***************************************************************************)
(* Model of the mesh CLI's host registry (mesh/core/config.py), its SSH     *)
(* config reconciler (mesh/utils/ssh.py) and the `mesh host` commands       *)
(* (mesh/commands/host.py).                                                 *)
(*                                                                         *)
(* A Python str is a sequence of symbols.  Every character is a symbol of  *)
(* its own, except the fixed words the program writes into the SSH config  *)
(* ("# mesh-managed:", "# end mesh-managed:", "Host", "HostName", "Port",   *)
(* "User"), which are one symbol each.  None of these words contains a      *)
(* newline, begins or ends with white space, or occurs inside another one  *)
(* or inside an alias, so split/strip/replace/`in` on symbols agree with   *)
(* the same operations on characters.                                       *)
(***************************************************************************)
EXTENDS Integers, Sequences, FiniteSets, TLC

VARIABLES
  hostsFile,   \* ~/.config/mesh/hosts.yaml: [exists, parses, doc]
  sshConfig,   \* ~/.ssh/config: [exists, text]
  env,         \* os.environ: MESH_DEFAULT_USER and USER (PyNone when unset)
  last,        \* the last call: its name, arguments, result, exception, exit code
  prevHosts,   \* hostsFile as it was before the last call
  prevSsh,     \* sshConfig as it was before the last call
  steps,       \* number of calls made so far
  wr,          \* the rewrite of ~/.ssh/config in progress: [phase, op, name, old, new]
  pc,          \* position of the running `mesh remote` command ("idle": none)
  sess,        \* its local variables
  events       \* what it has done so far to the target and the coordination server

procVars == <<wr, pc, sess, events>>

vars == <<hostsFile, sshConfig, env, last, prevHosts, prevSsh, steps, wr, pc, sess, events>>

----------------------------------------------------------------------------
(* Bounds of the model.                                                     *)

MaxRegistryOps == 2
MaxSshOps == 3
MaxCliOps == 2
MaxWriteOps == 2
\* symbols that one write call of the buffered file object puts into the file
ChunkLen == 16

----------------------------------------------------------------------------
(* Characters and generic str operations.                                   *)

Letters ==
  {"a","b","c","d","e","f","g","h","i","j","k","l","m","n","o","p","q","r","s",
   "t","u","v","w","x","y","z","A","B","C","D","E","F","G","H","I","J","K","L",
   "M","N","O","P","Q","R","S","T","U","V","W","X","Y","Z"}

Digits == {"0","1","2","3","4","5","6","7","8","9"}

Whitespace == {" ", "\n", "\t", "\r"}

Rep(c, n) == [i \in 1..n |-> c]

DigitChar(d) ==
  CASE d = 0 -> "0" [] d = 1 -> "1" [] d = 2 -> "2" [] d = 3 -> "3" [] d = 4 -> "4"
    [] d = 5 -> "5" [] d = 6 -> "6" [] d = 7 -> "7" [] d = 8 -> "8" [] d = 9 -> "9"

DigitVal(c) ==
  CASE c = "0" -> 0 [] c = "1" -> 1 [] c = "2" -> 2 [] c = "3" -> 3 [] c = "4" -> 4
    [] c = "5" -> 5 [] c = "6" -> 6 [] c = "7" -> 7 [] c = "8" -> 8 [] c = "9" -> 9

RECURSIVE NatToStr(_)
NatToStr(n) == IF n < 10 THEN <<DigitChar(n)>>
               ELSE NatToStr(n \div 10) \o <<DigitChar(n % 10)>>

\* str(int) / f"{int}"
IntToStr(n) == IF n < 0 THEN <<"-">> \o NatToStr(0 - n) ELSE NatToStr(n)

RECURSIVE StrToNat(_)
StrToNat(s) == IF s = <<>> THEN 0
               ELSE 10 * StrToNat(SubSeq(s, 1, Len(s) - 1)) + DigitVal(s[Len(s)])

\* sub in s
Contains(sub, s) ==
  \E i \in 0..(Len(s) - Len(sub)) : SubSeq(s, i + 1, i + Len(sub)) = sub

StartsWith(s, pre) == Len(pre) <= Len(s) /\ SubSeq(s, 1, Len(pre)) = pre

RECURSIVE LStrip(_)
LStrip(s) == IF s # <<>> /\ Head(s) \in Whitespace THEN LStrip(Tail(s)) ELSE s

RECURSIVE RStrip(_)
RStrip(s) == IF s # <<>> /\ s[Len(s)] \in Whitespace
             THEN RStrip(SubSeq(s, 1, Len(s) - 1)) ELSE s

Strip(s) == LStrip(RStrip(s))

\* s.split("\n"): always at least one line
RECURSIVE SplitLines(_)
SplitLines(s) ==
  IF \A i \in 1..Len(s) : s[i] # "\n" THEN <<s>>
  ELSE LET k == CHOOSE i \in 1..Len(s) :
                  s[i] = "\n" /\ \A j \in 1..(i - 1) : s[j] # "\n"
       IN <<SubSeq(s, 1, k - 1)>> \o SplitLines(SubSeq(s, k + 1, Len(s)))

\* "\n".join(lines)
RECURSIVE JoinLines(_)
JoinLines(lines) ==
  IF lines = <<>> THEN <<>>
  ELSE IF Len(lines) = 1 THEN lines[1]
  ELSE lines[1] \o <<"\n">> \o JoinLines(Tail(lines))

----------------------------------------------------------------------------
(* Python values, as far as the registry handles them.                      *)

PyNone == [t |-> "none", v |-> <<>>]
PyStr(s) == [t |-> "str", v |-> s]
PyInt(n) == [t |-> "int", v |-> n]
PyBool(b) == [t |-> "bool", v |-> b]
PyList(xs) == [t |-> "list", v |-> xs]
\* a dict keeps insertion order: a sequence of [k |-> key, w |-> value]
PyDict(items) == [t |-> "dict", v |-> items]

\* bool(x), as used by `x or {}`
Truthy(x) ==
  CASE x.t = "none" -> FALSE
    [] x.t = "str" -> x.v # <<>>
    [] x.t = "int" -> x.v # 0
    [] x.t = "bool" -> x.v
    [] x.t = "list" -> x.v # <<>>
    [] x.t = "dict" -> x.v # <<>>

DictHas(items, key) == \E i \in 1..Len(items) : items[i].k = key

\* d.get(key, default)
DictGet(items, key, default) ==
  IF DictHas(items, key)
  THEN items[CHOOSE i \in 1..Len(items) : items[i].k = key].w
  ELSE default

\* an assignment that appends without looking for the key
DictSetDup(items, key, value) == Append(items, [k |-> key, w |-> value])

\* d[key] = value: replaces in place, or appends a new key
DictSet(items, key, value) ==
  IF DictHas(items, key)
  THEN [i \in 1..Len(items) |->
          IF items[i].k = key THEN [k |-> key, w |-> value] ELSE items[i]]
  ELSE Append(items, [k |-> key, w |-> value])

\* del d[key]
DictDel(items, key) == SelectSeq(items, LAMBDA it : it.k # key)

----------------------------------------------------------------------------
(* YAML, as yaml.safe_load and yaml.dump treat the registry document.  A    *)
(* document is a tree of nodes; a scalar keeps its text and whether it is   *)
(* written plain or quoted.  A plain scalar is resolved by its text (null,  *)
(* decimal integer, otherwise str), a quoted one is always a str; the       *)
(* dumper quotes every str that would not come back as the same str.        *)

YScalar(style, text) == [kind |-> "scalar", style |-> style, text |-> text, items |-> <<>>]
YMap(items) == [kind |-> "map", style |-> "", text |-> <<>>, items |-> items]
YSeq(items) == [kind |-> "seq", style |-> "", text |-> <<>>, items |-> items]
YEmpty == [kind |-> "empty", style |-> "", text |-> <<>>, items |-> <<>>]

NullTexts == {<<>>, <<"~">>, <<"n","u","l","l">>, <<"N","u","l","l">>, <<"N","U","L","L">>}

\* [-+]?(0|[1-9][0-9]*)
IsDecimal(s) ==
  LET d == IF s # <<>> /\ s[1] \in {"-", "+"} THEN Tail(s) ELSE s
  IN /\ d # <<>>
     /\ \A i \in 1..Len(d) : d[i] \in Digits
     /\ (Len(d) = 1 \/ d[1] # "0")

DecimalVal(s) ==
  IF s[1] = "-" THEN 0 - StrToNat(Tail(s))
  ELSE IF s[1] = "+" THEN StrToNat(Tail(s)) ELSE StrToNat(s)

\* the implicit resolver on a plain scalar
ResolvePlain(text) ==
  IF text \in NullTexts THEN PyNone
  ELSE IF IsDecimal(text) THEN PyInt(DecimalVal(text))
  ELSE PyStr(text)

RECURSIVE Construct(_)
RECURSIVE ConstructItems(_, _)
\* yaml.safe_load on a parsed document
Construct(node) ==
  CASE node.kind = "empty" -> PyNone
    [] node.kind = "scalar" ->
         IF node.style = "plain" THEN ResolvePlain(node.text) ELSE PyStr(node.text)
    [] node.kind = "seq" ->
         PyList([i \in 1..Len(node.items) |-> Construct(node.items[i])])
    [] node.kind = "map" -> PyDict(ConstructItems(node.items, <<>>))

ConstructItems(items, acc) ==
  IF items = <<>> THEN acc
  ELSE ConstructItems(Tail(items),
         DictSet(acc, Construct(Head(items).k), Construct(Head(items).w)))

\* a dumper that never quotes
StrStyleAlwaysPlain(s) == "plain"

\* the style yaml.dump gives a str
StrStyle(s) ==
  IF \/ ResolvePlain(s).t # "str"
     \/ \E i \in 1..Len(s) : s[i] = "\n"
     \/ s[1] \in Whitespace
     \/ s[Len(s)] \in Whitespace
  THEN "quoted" ELSE "plain"

RECURSIVE Represent(_)
\* yaml.dump(data, default_flow_style=False, sort_keys=False)
Represent(x) ==
  CASE x.t = "none" -> YScalar("plain", <<"n","u","l","l">>)
    [] x.t = "str" -> YScalar(StrStyle(x.v), x.v)
    [] x.t = "int" -> YScalar("plain", IntToStr(x.v))
    [] x.t = "dict" ->
         YMap([i \in 1..Len(x.v) |->
                 [k |-> Represent(x.v[i].k), w |-> Represent(x.v[i].w)]])

----------------------------------------------------------------------------
(* The host registry: mesh/core/config.py.                                  *)

MaxHostnameLen == 63
DefaultPort == 22

K_hosts == <<"h","o","s","t","s">>
K_ip == <<"i","p">>
K_port == <<"p","o","r","t">>
K_user == <<"u","s","e","r">>

MissingFile == [exists |-> FALSE, parses |-> TRUE, doc |-> YEmpty]
FileOf(doc) == [exists |-> TRUE, parses |-> TRUE, doc |-> doc]

\* os.environ.get("MESH_DEFAULT_USER", os.environ.get("USER", "user"))
get_default_user(e) ==
  IF e.MESH_DEFAULT_USER # PyNone THEN e.MESH_DEFAULT_USER
  ELSE IF e.USER # PyNone THEN e.USER
  ELSE PyStr(K_user)

\* Host(name=, ip=, port=, user=) with __post_init__
Host(name, ip, port, user, e) ==
  [name |-> name, ip |-> ip, port |-> port,
   user |-> IF user = PyNone THEN get_default_user(e) ELSE user]

Returned(val) == [exc |-> "", val |-> val]
Raised(exc) == [exc |-> exc, val |-> <<>>]

RECURSIVE HostsOfItems(_, _, _)
\* the loop of load_hosts over hosts_data.items()
HostsOfItems(items, e, acc) ==
  IF items = <<>> THEN acc
  ELSE LET name == Head(items).k
           info == Head(items).w
       IN HostsOfItems(Tail(items), e,
            IF info.t # "dict" THEN acc
            ELSE DictSet(acc, name,
                   Host(name,
                        DictGet(info.v, PyStr(K_ip), PyStr(<<>>)),
                        DictGet(info.v, PyStr(K_port), PyInt(DefaultPort)),
                        DictGet(info.v, PyStr(K_user), PyNone),
                        e)))

\* load_hosts(): a dict name -> Host, or the exception that escapes it
load_hosts(file, e) ==
  IF ~file.exists THEN Returned(<<>>)
  ELSE IF ~file.parses THEN Returned(<<>>)
  ELSE LET loaded == Construct(file.doc)
           data == IF Truthy(loaded) THEN loaded ELSE PyDict(<<>>)
       IN IF data.t # "dict" THEN Raised("AttributeError")
          ELSE LET got == DictGet(data.v, PyStr(K_hosts), PyDict(<<>>))
                   hosts_data == IF Truthy(got) THEN got ELSE PyDict(<<>>)
               IN IF hosts_data.t # "dict" THEN Raised("AttributeError")
                  ELSE Returned(HostsOfItems(hosts_data.v, e, <<>>))

RECURSIVE HostsData(_, _)
\* the dict comprehension of save_hosts
HostsData(hosts, acc) ==
  IF hosts = <<>> THEN acc
  ELSE LET host == Head(hosts).w
       IN HostsData(Tail(hosts),
            DictSet(acc, host.name,
              PyDict(<<[k |-> PyStr(K_ip), w |-> host.ip],
                       [k |-> PyStr(K_port), w |-> host.port],
                       [k |-> PyStr(K_user), w |-> host.user]>>)))

\* save_hosts(hosts): the file it writes
save_hosts(hosts) ==
  FileOf(Represent(PyDict(<<[k |-> PyStr(K_hosts), w |-> PyDict(HostsData(hosts, <<>>))]>>)))

\* VALID_HOSTNAME_PATTERN.match(name): ^[a-zA-Z0-9][a-zA-Z0-9_-]*$, where $
\* matches at the end of the string and also just before a newline that ends it
VALID_HOSTNAME_PATTERN(name) ==
  LET body == IF name # <<>> /\ name[Len(name)] = "\n"
              THEN SubSeq(name, 1, Len(name) - 1) ELSE name
  IN /\ body # <<>>
     /\ body[1] \in Letters \cup Digits
     /\ \A i \in 2..Len(body) : body[i] \in Letters \cup Digits \cup {"_", "-"}

validate_hostname(name) ==
  IF name = <<>> \/ Len(name) > MaxHostnameLen THEN FALSE
  ELSE VALID_HOSTNAME_PATTERN(name)

\* add_host(name, ip, port, user): [exc, ret, file]
add_host(file, e, name, ip, port, user) ==
  IF ~validate_hostname(name)
  THEN [exc |-> "InvalidHostnameError", ret |-> PyNone, file |-> file]
  ELSE LET loaded == load_hosts(file, e)
       IN IF loaded.exc # ""
          THEN [exc |-> loaded.exc, ret |-> PyNone, file |-> file]
          ELSE LET host == Host(PyStr(name), PyStr(ip), PyInt(port), user, e)
                   hosts == DictSet(loaded.val, PyStr(name), host)
               IN [exc |-> "", ret |-> [t |-> "host", v |-> host],
                   file |-> save_hosts(hosts)]

\* a remove_host that reports the entry and forgets to save
remove_host_Unsaved(file, e, name) ==
  LET loaded == load_hosts(file, e)
  IN [exc |-> loaded.exc, ret |-> PyBool(DictHas(loaded.val, PyStr(name))),
      file |-> file]

\* remove_host(name): [exc, ret, file]
remove_host(file, e, name) ==
  LET loaded == load_hosts(file, e)
  IN IF loaded.exc # ""
     THEN [exc |-> loaded.exc, ret |-> PyNone, file |-> file]
     ELSE IF ~DictHas(loaded.val, PyStr(name))
     THEN [exc |-> "", ret |-> PyBool(FALSE), file |-> file]
     ELSE [exc |-> "", ret |-> PyBool(TRUE),
           file |-> save_hosts(DictDel(loaded.val, PyStr(name)))]

\* get_host(name): [exc, ret]
get_host(file, e, name) ==
  LET loaded == load_hosts(file, e)
  IN IF loaded.exc # "" THEN [exc |-> loaded.exc, ret |-> PyNone]
     ELSE [exc |-> "",
           ret |-> IF DictHas(loaded.val, PyStr(name))
                   THEN [t |-> "host", v |-> DictGet(loaded.val, PyStr(name), PyNone)]
                   ELSE PyNone]

----------------------------------------------------------------------------
(* The SSH config reconciler: mesh/utils/ssh.py.                            *)

DYNAMIC_HOST_START == <<"# mesh-managed:">>
DYNAMIC_HOST_END == <<"# end mesh-managed:">>

Indent == <<" ", " ", " ", " ">>

RECURSIVE KeepOutsideBlock(_, _, _, _)
\* the for loop of _remove_dynamic_host_block: the lines it keeps
KeepOutsideBlock(lines, start_marker, end_marker, in_block) ==
  IF lines = <<>> THEN <<>>
  ELSE LET line == Head(lines)
       IN IF Contains(start_marker, line)
          THEN KeepOutsideBlock(Tail(lines), start_marker, end_marker, TRUE)
          ELSE IF Contains(end_marker, line)
          THEN KeepOutsideBlock(Tail(lines), start_marker, end_marker, FALSE)
          ELSE IF ~in_block
          THEN <<line>> \o KeepOutsideBlock(Tail(lines), start_marker, end_marker, in_block)
          ELSE KeepOutsideBlock(Tail(lines), start_marker, end_marker, in_block)

RECURSIVE ReplaceTriple(_)
\* result.replace("\n\n\n", "\n\n"): left to right, occurrences do not overlap
ReplaceTriple(s) ==
  IF Len(s) < 3 THEN s
  ELSE IF SubSeq(s, 1, 3) = <<"\n", "\n", "\n">>
  THEN <<"\n", "\n">> \o ReplaceTriple(SubSeq(s, 4, Len(s)))
  ELSE <<Head(s)>> \o ReplaceTriple(Tail(s))

RECURSIVE CollapseBlank(_)
\* while "\n\n\n" in result: result = result.replace("\n\n\n", "\n\n")
CollapseBlank(s) ==
  IF Contains(<<"\n", "\n", "\n">>, s) THEN CollapseBlank(ReplaceTriple(s)) ELSE s

\* a block removal that takes the `Host <name>` line for the start of the block
remove_dynamic_host_block_ByHostLine(content, name) ==
  LET start_marker == <<"Host", " ">> \o name
      end_marker == DYNAMIC_HOST_END \o <<" ">> \o name
      new_lines == KeepOutsideBlock(SplitLines(content), start_marker, end_marker, FALSE)
      result == CollapseBlank(JoinLines(new_lines))
  IN IF Strip(result) # <<>> THEN Strip(result) \o <<"\n">> ELSE <<>>

\* _remove_dynamic_host_block(content, name)
remove_dynamic_host_block(content, name) ==
  LET start_marker == DYNAMIC_HOST_START \o <<" ">> \o name
      end_marker == DYNAMIC_HOST_END \o <<" ">> \o name
      new_lines == KeepOutsideBlock(SplitLines(content), start_marker, end_marker, FALSE)
      result == CollapseBlank(JoinLines(new_lines))
  IN IF Strip(result) # <<>> THEN Strip(result) \o <<"\n">> ELSE <<>>

\* the entry add_ssh_host builds (the f-string, before .strip())
SshEntry(name, hostname, port, user) ==
  <<"\n">>
  \o DYNAMIC_HOST_START \o <<" ">> \o name \o <<"\n">>
  \o <<"Host", " ">> \o name \o <<"\n">>
  \o Indent \o <<"HostName", " ">> \o hostname \o <<"\n">>
  \o Indent \o <<"Port", " ">> \o IntToStr(port) \o <<"\n">>
  \o Indent \o <<"User", " ">> \o user \o <<"\n">>
  \o DYNAMIC_HOST_END \o <<" ">> \o name \o <<"\n">>

\* add_ssh_host(name, hostname, port, user): [ret, cfg]
add_ssh_host(cfg, name, hostname, port, user) ==
  LET existing == IF cfg.exists THEN cfg.text ELSE <<>>
      cleaned == remove_dynamic_host_block(existing, name)
      new_content == RStrip(cleaned) \o <<"\n">>
                     \o Strip(SshEntry(name, hostname, port, user)) \o <<"\n">>
  IN [ret |-> TRUE, cfg |-> [exists |-> TRUE, text |-> new_content]]

\* remove_ssh_host(name): [ret, cfg]
remove_ssh_host(cfg, name) ==
  IF ~cfg.exists THEN [ret |-> FALSE, cfg |-> cfg]
  ELSE IF ~Contains(DYNAMIC_HOST_START \o <<" ">> \o name, cfg.text)
  THEN [ret |-> FALSE, cfg |-> cfg]
  ELSE [ret |-> TRUE,
        cfg |-> [exists |-> TRUE, text |-> remove_dynamic_host_block(cfg.text, name)]]

\* str.lower() of one symbol, as far as the `Host` keyword is concerned
LowerWord(sym) == IF sym \in {"Host", "HOST", "host"} THEN "host" ELSE sym

RECURSIVE SplitWhitespace(_)
\* s.split(): the maximal runs of symbols that are not white space
SplitWhitespace(s) ==
  LET t == LStrip(s)
  IN IF t = <<>> THEN <<>>
     ELSE LET ends == {i \in 1..Len(t) : t[i] \in Whitespace}
              k == IF ends = {} THEN Len(t) + 1
                   ELSE CHOOSE i \in ends : \A j \in ends : i <= j
          IN <<SubSeq(t, 1, k - 1)>> \o SplitWhitespace(SubSeq(t, k, Len(t)))

\* the test host_exists makes on one line of the config
HostLineLists(line, name) ==
  LET stripped == Strip(line)
  IN /\ Len(stripped) >= 2
     /\ LowerWord(stripped[1]) = "host"
     /\ stripped[2] = " "
     /\ \E i \in 1..Len(SplitWhitespace(SubSeq(stripped, 3, Len(stripped)))) :
          SplitWhitespace(SubSeq(stripped, 3, Len(stripped)))[i] = name

\* host_exists(name)
host_exists(cfg, name) ==
  IF ~cfg.exists THEN FALSE
  ELSE IF Contains(DYNAMIC_HOST_START \o <<" ">> \o name, cfg.text) THEN TRUE
  ELSE \E i \in 1..Len(SplitLines(cfg.text)) :
         HostLineLists(SplitLines(cfg.text)[i], name)

----------------------------------------------------------------------------
(* Inputs of the calls.                                                     *)

nA == <<"a">>
nAB == <<"a", "b">>
nDigit == <<"1">>
nNewline == <<"a", "\n">>
nLongest == Rep("a", MaxHostnameLen)
nEmpty == <<>>
nDash == <<"-", "a">>
nSpace == <<"a", " ", "b">>
nTooLong == Rep("a", MaxHostnameLen + 1)

Names == {nA, nAB, nDigit, nNewline, nLongest, nEmpty, nDash, nSpace, nTooLong}

\* (ip, port, user) triples; "10" is an address a plain YAML scalar would turn
\* into an int, PyNone is "no user given"
Descs ==
  {[ip |-> <<"h">>, port |-> 22, user |-> PyStr(<<"u">>)],
   [ip |-> <<"1", "0">>, port |-> 2222, user |-> PyNone],
   [ip |-> <<"g">>, port |-> 0, user |-> PyStr(<<"v">>)]}

Envs ==
  {[MESH_DEFAULT_USER |-> PyNone, USER |-> PyStr(<<"u">>)],
   [MESH_DEFAULT_USER |-> PyStr(<<"m">>), USER |-> PyNone]}

MissingConfig == [exists |-> FALSE, text |-> <<>>]

Call(op, name, d, flag, exc, ret, exit) ==
  [op |-> op, name |-> name, ip |-> d.ip, port |-> d.port, user |-> d.user,
   flag |-> flag, exc |-> exc, ret |-> ret, exit |-> exit]

NoDesc == [ip |-> <<>>, port |-> 0, user |-> PyNone]
NoCall == Call("", <<>>, NoDesc, FALSE, "", PyNone, 0)

\* no rewrite of the SSH config is in progress
NoWrite == [phase |-> "idle", op |-> "", name |-> <<>>, old |-> MissingConfig, new |-> <<>>]

\* no `mesh remote` command is running: the locals of provision, unset;
\* `listed` is not a local: with force, when the member list is not asked
\* for, it says whether the coordination server lists the idempotency key
NoSession ==
  [cmd |-> "", original_name |-> <<>>, host |-> <<>>, port |-> 0, server |-> <<>>,
   hostname |-> <<>>, force |-> FALSE, skip_syncthing |-> FALSE,
   os_type |-> "", auth_key |-> "", conflicts |-> <<>>, success |-> FALSE,
   exit |-> -1, outcome |-> "", label |-> <<>>, queue |-> <<>>, results |-> <<>>,
   listed |-> FALSE]

ProcIdle ==
  /\ wr = NoWrite
  /\ pc = "idle"
  /\ sess = NoSession
  /\ events = <<>>

----------------------------------------------------------------------------
(* The registry functions called one after another on a store that starts  *)
(* missing: specification SpecRegistry.                                     *)

InitRegistry ==
  /\ hostsFile = MissingFile
  /\ sshConfig = MissingConfig
  /\ env \in Envs
  /\ last = NoCall
  /\ prevHosts = MissingFile
  /\ prevSsh = MissingConfig
  /\ steps = 0
  /\ ProcIdle

AddHost(name, d) ==
  LET r == add_host(hostsFile, env, name, d.ip, d.port, d.user)
  IN /\ steps < MaxRegistryOps
     /\ hostsFile' = r.file
     /\ last' = Call("add_host", name, d, FALSE, r.exc, r.ret, 0)
     /\ prevHosts' = hostsFile
     /\ steps' = steps + 1
     /\ UNCHANGED procVars
     /\ UNCHANGED <<sshConfig, env, prevSsh>>

RemoveHost(name) ==
  LET r == remove_host(hostsFile, env, name)
  IN /\ steps < MaxRegistryOps
     /\ hostsFile' = r.file
     /\ last' = Call("remove_host", name, NoDesc, FALSE, r.exc, r.ret, 0)
     /\ prevHosts' = hostsFile
     /\ steps' = steps + 1
     /\ UNCHANGED procVars
     /\ UNCHANGED <<sshConfig, env, prevSsh>>

GetHost(name) ==
  LET r == get_host(hostsFile, env, name)
  IN /\ steps < MaxRegistryOps
     /\ last' = Call("get_host", name, NoDesc, FALSE, r.exc, r.ret, 0)
     /\ prevHosts' = hostsFile
     /\ steps' = steps + 1
     /\ UNCHANGED procVars
     /\ UNCHANGED <<hostsFile, sshConfig, env, prevSsh>>

LoadHosts ==
  LET r == load_hosts(hostsFile, env)
  IN /\ steps < MaxRegistryOps
     /\ last' = Call("load_hosts", <<>>, NoDesc, FALSE, r.exc,
                     [t |-> "hosts", v |-> r.val], 0)
     /\ prevHosts' = hostsFile
     /\ steps' = steps + 1
     /\ UNCHANGED procVars
     /\ UNCHANGED <<hostsFile, sshConfig, env, prevSsh>>

NextRegistry ==
  \/ \E name \in Names, d \in Descs : AddHost(name, d)
  \/ \E name \in Names : RemoveHost(name)
  \/ \E name \in Names : GetHost(name)
  \/ LoadHosts

SpecRegistry == InitRegistry /\ [][NextRegistry]_vars

----------------------------------------------------------------------------
(* Properties of the registry.                                              *)

\* the entries load_hosts() returns in the current state
Loaded == load_hosts(hostsFile, env)

\* the user a descriptor holds when `user` was passed to add_host
UserPassed(user) == IF user = PyNone THEN get_default_user(env) ELSE user

EntryCount(items, name) ==
  Cardinality({i \in 1..Len(items) : items[i].k = PyStr(name)})

\* the key/value nodes of the "hosts" mapping as they stand in the file
FileEntries(file) ==
  IF file.exists /\ file.doc.kind = "map" /\ file.doc.items # <<>>
  THEN file.doc.items[1].w.items ELSE <<>>

\* C1: for every alias that passes validation, add_host(name, ip, port, user)
\* succeeds and get_host(name) on the store it wrote returns a descriptor with
\* exactly that name, ip, port and user (the default user when none was given).
C1_RoundTrip ==
  (last.op = "add_host" /\ validate_hostname(last.name)) =>
    LET g == get_host(hostsFile, env, last.name)
    IN /\ last.exc = ""
       /\ g.exc = ""
       /\ g.ret.t = "host"
       /\ g.ret.v.name = PyStr(last.name)
       /\ g.ret.v.ip = PyStr(last.ip)
       /\ g.ret.v.port = PyInt(last.port)
       /\ g.ret.v.user = UserPassed(last.user)

\* C1 witness: an alias and an address made of digits only, which a plain YAML
\* scalar would read back as integers, have been added and are read back.
C1_Witness ==
  /\ last.op = "add_host"
  /\ last.exc = ""
  /\ last.name = nDigit
  /\ last.ip = <<"1", "0">>
  /\ get_host(hostsFile, env, nDigit).ret.t = "host"

\* C2: after add_host(name, B) the store holds exactly one entry for name and
\* it is B, whatever was stored for name before; and in every reachable state
\* no name has two entries, neither in load_hosts() nor in the file.
C2_LastWriteWins ==
  /\ Loaded.exc = ""
  /\ \A i, j \in 1..Len(Loaded.val) :
       Loaded.val[i].k = Loaded.val[j].k => i = j
  /\ \A i, j \in 1..Len(FileEntries(hostsFile)) :
       Construct(FileEntries(hostsFile)[i].k) = Construct(FileEntries(hostsFile)[j].k)
         => i = j
  /\ (last.op = "add_host" /\ last.exc = "") =>
       /\ EntryCount(Loaded.val, last.name) = 1
       /\ EntryCount(ConstructItems(FileEntries(hostsFile), <<>>), last.name) = 1
       /\ DictGet(Loaded.val, PyStr(last.name), PyNone) =
            [name |-> PyStr(last.name), ip |-> PyStr(last.ip),
             port |-> PyInt(last.port), user |-> UserPassed(last.user)]

\* C2 witness: add_host has just replaced an entry that held another address,
\* port and user for the same name.
C2_Witness ==
  /\ last.op = "add_host"
  /\ last.exc = ""
  /\ LET before == get_host(prevHosts, env, last.name).ret
     IN /\ before.t = "host"
        /\ before.v.ip # PyStr(last.ip)
        /\ before.v.port # PyInt(last.port)
        /\ before.v.user # UserPassed(last.user)

\* C4: remove_host(name) raises nothing; on a name without an entry it returns
\* False and leaves the store as it was, on a name with an entry it returns
\* True and get_host(name) is absent afterwards.
C4_RemoveHost ==
  last.op = "remove_host" =>
    /\ last.exc = ""
    /\ IF get_host(prevHosts, env, last.name).ret = PyNone
       THEN last.ret = PyBool(FALSE) /\ hostsFile = prevHosts
       ELSE /\ last.ret = PyBool(TRUE)
            /\ get_host(hostsFile, env, last.name).ret = PyNone

\* C4 witness: remove_host was called on a name without an entry and returned
\* False (witnessed both on a missing store and on one that holds other hosts).
C4_Witness ==
  /\ last.op = "remove_host"
  /\ last.ret = PyBool(FALSE)
  /\ get_host(prevHosts, env, last.name).ret = PyNone
  /\ Len(load_hosts(prevHosts, env).val) > 0

\* C6: every descriptor in the registry has a port in 1..65535.
C6_PortInRange ==
  \A i \in 1..Len(Loaded.val) :
    /\ Loaded.val[i].w.port.t = "int"
    /\ Loaded.val[i].w.port.v \in 1..65535

----------------------------------------------------------------------------
(* The reconciler functions called one after another on a config file that *)
(* starts missing or hand-written: specification SpecSsh.                   *)

\* aliases that reach the reconciler: `mesh host add` calls add_ssh_host only
\* after add_host accepted the alias, `mesh host remove` calls remove_ssh_host
\* only for an alias found in the registry
SshNames == {n \in {nA, nAB, nDigit, nNewline} : validate_hostname(n)}

SshDescs ==
  {[ip |-> <<"h">>, port |-> 22, user |-> PyStr(<<"u">>)],
   [ip |-> <<"g">>, port |-> 2222, user |-> PyStr(<<"v">>)]}

\* hand-written config files: a static entry for the alias "a"; the same with
\* white space before the first and after the last line; two static entries
\* with blank lines before, between (two, then three) and after them; a file
\* the tool wrote a block for "a" into, edited by hand since: two static
\* entries two blank lines apart before the block
cfgStatic ==
  <<"Host", " ", "a", "\n">> \o Indent \o <<"HostName", " ", "s", "\n">>

cfgSpaces ==
  <<" ", "Host", " ", "a", "\n">> \o Indent \o <<"HostName", " ", "s", " ", "\n">>

cfgBlank ==
  <<"\n", "Host", " ", "b", "\n">> \o Indent \o <<"HostName", " ", "s", "\n">>
  \o <<"\n", "\n", "Host", " ", "t", "\n">> \o Indent \o <<"User", " ", "v", "\n">>
  \o <<"\n", "\n", "\n", "#", " ", "k", "\n", "\n">>

cfgEdited ==
  <<"Host", " ", "b", "\n", "\n", "\n", "Host", " ", "t", "\n">>
  \o Strip(SshEntry(nA, <<"h">>, 22, <<"u">>)) \o <<"\n">>

StaticConfigs ==
  {MissingConfig,
   [exists |-> TRUE, text |-> cfgEdited],
   [exists |-> TRUE, text |-> cfgStatic],
   [exists |-> TRUE, text |-> cfgSpaces],
   [exists |-> TRUE, text |-> cfgBlank]}

InitSsh ==
  /\ hostsFile = MissingFile
  /\ sshConfig \in StaticConfigs
  /\ env \in {e \in Envs : e.USER # PyNone}
  /\ last = NoCall
  /\ prevHosts = MissingFile
  /\ prevSsh = sshConfig
  /\ steps = 0
  /\ ProcIdle

AddSshHost(name, d) ==
  LET r == add_ssh_host(sshConfig, name, d.ip, d.port, d.user.v)
  IN /\ steps < MaxSshOps
     /\ sshConfig' = r.cfg
     /\ last' = Call("add_ssh_host", name, d, FALSE, "", PyBool(r.ret), 0)
     /\ prevSsh' = sshConfig
     /\ steps' = steps + 1
     /\ UNCHANGED procVars
     /\ UNCHANGED <<hostsFile, env, prevHosts>>

RemoveSshHost(name) ==
  LET r == remove_ssh_host(sshConfig, name)
  IN /\ steps < MaxSshOps
     /\ sshConfig' = r.cfg
     /\ last' = Call("remove_ssh_host", name, NoDesc, FALSE, "", PyBool(r.ret), 0)
     /\ prevSsh' = sshConfig
     /\ steps' = steps + 1
     /\ UNCHANGED procVars
     /\ UNCHANGED <<hostsFile, env, prevHosts>>

HostExists(name) ==
  /\ steps < MaxSshOps
  /\ last' = Call("host_exists", name, NoDesc, FALSE, "",
                  PyBool(host_exists(sshConfig, name)), 0)
  /\ prevSsh' = sshConfig
  /\ steps' = steps + 1
  /\ UNCHANGED procVars
  /\ UNCHANGED <<hostsFile, sshConfig, env, prevHosts>>

NextSsh ==
  \/ \E name \in SshNames, d \in SshDescs : AddSshHost(name, d)
  \/ \E name \in SshNames : RemoveSshHost(name)
  \/ \E name \in SshNames : HostExists(name)

SpecSsh == InitSsh /\ [][NextSsh]_vars

----------------------------------------------------------------------------
(* Properties of the SSH config reconciler.                                 *)

\* the naming invariant of an alias: ^[A-Za-z0-9][A-Za-z0-9_-]{0,62}$
NamingInvariant(name) ==
  /\ name # <<>>
  /\ Len(name) <= 63
  /\ name[1] \in Letters \cup Digits
  /\ \A i \in 2..Len(name) : name[i] \in Letters \cup Digits \cup {"_", "-"}

LinesOf(cfg) == IF cfg.exists THEN SplitLines(cfg.text) ELSE <<>>

IsStartLine(line) == StartsWith(line, DYNAMIC_HOST_START)
IsEndLine(line) == StartsWith(line, DYNAMIC_HOST_END)
StartLineOf(name) == DYNAMIC_HOST_START \o <<" ">> \o name
EndLineOf(name) == DYNAMIC_HOST_END \o <<" ">> \o name

\* a dynamic block whose marker names exactly `name`
HasBlock(cfg, name) ==
  \E i \in 1..Len(LinesOf(cfg)) : LinesOf(cfg)[i] = StartLineOf(name)

\* the lines of the block of `name`, markers included (<<>> when there is none)
BlockOf(cfg, name) ==
  LET lines == LinesOf(cfg)
  IN IF ~HasBlock(cfg, name) THEN <<>>
     ELSE LET i == CHOOSE i \in 1..Len(lines) :
                     lines[i] = StartLineOf(name)
                     /\ \A k \in 1..(i - 1) : lines[k] # StartLineOf(name)
              ends == {j \in i..Len(lines) : lines[j] = EndLineOf(name)}
          IN IF ends = {} THEN SubSeq(lines, i, Len(lines))
             ELSE SubSeq(lines, i, CHOOSE j \in ends : \A k \in ends : j <= k)

\* how many times the start marker of `name` stands on a line of its own
BlockCount(cfg, name) ==
  LET mark == StartLineOf(name) \o <<"\n">>
      text == IF cfg.exists THEN cfg.text ELSE <<>>
  IN Cardinality({i \in 1..Len(text) :
                    /\ i + Len(mark) - 1 <= Len(text)
                    /\ SubSeq(text, i, i + Len(mark) - 1) = mark
                    /\ (i = 1 \/ text[i - 1] = "\n")})

RECURSIVE OutsideBlocks(_, _)
\* the non-blank lines that lie outside every marker-delimited block
OutsideBlocks(lines, inside) ==
  IF lines = <<>> THEN <<>>
  ELSE LET line == Head(lines)
       IN IF IsStartLine(line) THEN OutsideBlocks(Tail(lines), TRUE)
          ELSE IF IsEndLine(line) THEN OutsideBlocks(Tail(lines), FALSE)
          ELSE IF inside \/ Strip(line) = <<>> THEN OutsideBlocks(Tail(lines), inside)
          ELSE <<line>> \o OutsideBlocks(Tail(lines), inside)

StaticLines(cfg) == OutsideBlocks(LinesOf(cfg), FALSE)

RECURSIVE Bracketed(_, _)
\* marker lines come in pairs start(n), end(n), never one inside another
Bracketed(lines, open) ==
  IF lines = <<>> THEN open = <<>>
  ELSE LET line == Head(lines)
       IN IF IsStartLine(line)
          THEN open = <<>> /\ Bracketed(Tail(lines), <<SubSeq(line, 2, Len(line))>>)
          ELSE IF IsEndLine(line)
          THEN open = <<SubSeq(line, 2, Len(line))>> /\ Bracketed(Tail(lines), <<>>)
          ELSE Bracketed(Tail(lines), open)

\* the static lines are those of `before`, except that white space may have
\* been trimmed at the start of the first and at the end of the last of them
TrimmedAtEnds(before, after) ==
  /\ Len(after) = Len(before)
  /\ \A i \in 1..Len(before) :
       \/ after[i] = before[i]
       \/ i = 1 /\ after[i] = LStrip(before[i])
       \/ i = Len(before) /\ after[i] = RStrip(before[i])
       \/ i = 1 /\ i = Len(before) /\ after[i] = Strip(before[i])

\* C7: the config holds at most one dynamic block per name and blocks neither
\* overlap nor nest; after add_ssh_host(h, ...), also when it repeats the call
\* before it, there is exactly one block for h; the static entries are kept
\* (compared as in C9_StaticPreserved).
C7_OneBlockPerName ==
  LET lines == LinesOf(sshConfig)
  IN /\ \A i, j \in 1..Len(lines) :
          (IsStartLine(lines[i]) /\ lines[i] = lines[j]) => i = j
     /\ Bracketed(lines, <<>>)
     /\ last.op = "add_ssh_host" => BlockCount(sshConfig, last.name) = 1
     /\ TrimmedAtEnds(StaticLines(prevSsh), StaticLines(sshConfig))

\* C8: for distinct valid aliases n and m, add_ssh_host(n, ...) and
\* remove_ssh_host(n) leave the dynamic block of m present and unchanged.
C8_ExactNameMatch ==
  (last.op \in {"add_ssh_host", "remove_ssh_host"} /\ NamingInvariant(last.name)) =>
    \A m \in SshNames :
      (NamingInvariant(m) /\ m # last.name /\ HasBlock(prevSsh, m)) =>
        /\ HasBlock(sshConfig, m)
        /\ BlockOf(sshConfig, m) = BlockOf(prevSsh, m)

C10_RemoveSshHost ==
  (last.op = "remove_ssh_host" /\ NamingInvariant(last.name)) =>
    /\ last.ret = PyBool(HasBlock(prevSsh, last.name))
    /\ last.ret = PyBool(TRUE) => ~HasBlock(sshConfig, last.name)
    /\ last.ret = PyBool(FALSE) => sshConfig = prevSsh

----------------------------------------------------------------------------
(* The `mesh host add` and `mesh host remove` commands of                   *)
(* mesh/commands/host.py, run one after another on a missing registry and  *)
(* a missing or hand-written SSH config: specification Spec.                *)

K_ubuntu == <<"u","b","u","n","t","u">>

\* `mesh host add NAME --ip IP --port PORT [--user USER] [--no-ssh]`:
\* [exc, exit, file, cfg]
host_add(file, cfg, e, name, ip, port, user, no_ssh) ==
  LET u == IF user = PyNone
           THEN (IF e.USER # PyNone THEN e.USER ELSE PyStr(K_ubuntu))
           ELSE user
      r == add_host(file, e, name, ip, port, u)
  IN IF r.exc # ""
     THEN [exc |-> r.exc, exit |-> 1, file |-> r.file, cfg |-> cfg]
     ELSE [exc |-> "", exit |-> 0, file |-> r.file,
           cfg |-> IF no_ssh THEN cfg
                   ELSE add_ssh_host(cfg, name, ip, port, u.v).cfg]

\* `mesh host remove NAME [--keep-ssh]`: [exc, exit, file, cfg]
host_remove(file, cfg, e, name, keep_ssh) ==
  LET g == get_host(file, e, name)
  IN IF g.exc # "" THEN [exc |-> g.exc, exit |-> 1, file |-> file, cfg |-> cfg]
     ELSE IF g.ret = PyNone THEN [exc |-> "", exit |-> 1, file |-> file, cfg |-> cfg]
     ELSE [exc |-> "", exit |-> 0,
           file |-> remove_host(file, e, name).file,
           cfg |-> IF keep_ssh THEN cfg ELSE remove_ssh_host(cfg, name).cfg]

Init ==
  /\ hostsFile = MissingFile
  /\ sshConfig \in StaticConfigs
  /\ env \in Envs
  /\ last = NoCall
  /\ prevHosts = MissingFile
  /\ prevSsh = sshConfig
  /\ steps = 0
  /\ ProcIdle

HostAdd(name, d, no_ssh) ==
  LET r == host_add(hostsFile, sshConfig, env, name, d.ip, d.port, d.user, no_ssh)
  IN /\ steps < MaxCliOps
     /\ hostsFile' = r.file
     /\ sshConfig' = r.cfg
     /\ last' = Call("host add", name, d, no_ssh, r.exc, PyNone, r.exit)
     /\ prevHosts' = hostsFile
     /\ prevSsh' = sshConfig
     /\ steps' = steps + 1
     /\ UNCHANGED procVars
     /\ UNCHANGED env

HostRemove(name, keep_ssh) ==
  LET r == host_remove(hostsFile, sshConfig, env, name, keep_ssh)
  IN /\ steps < MaxCliOps
     /\ hostsFile' = r.file
     /\ sshConfig' = r.cfg
     /\ last' = Call("host remove", name, NoDesc, keep_ssh, r.exc, PyNone, r.exit)
     /\ prevHosts' = hostsFile
     /\ prevSsh' = sshConfig
     /\ steps' = steps + 1
     /\ UNCHANGED procVars
     /\ UNCHANGED env

Next ==
  \/ \E name \in Names, d \in Descs, no_ssh \in BOOLEAN : HostAdd(name, d, no_ssh)
  \/ \E name \in Names, keep_ssh \in BOOLEAN : HostRemove(name, keep_ssh)

Spec == Init /\ [][Next]_vars

\* C3: a name that breaks the naming invariant (empty, longer than 63, not
\* starting with an alphanumeric, or holding a character other than
\* alphanumerics, hyphen and underscore) makes add_host raise
\* InvalidHostnameError and `mesh host add` exit non-zero with the registry
\* file and the SSH config unchanged; so every name held in the registry
\* satisfies the naming invariant.
C3_InvalidAliasRejected ==
  /\ (last.op = "host add" /\ ~NamingInvariant(last.name)) =>
       /\ last.exc = "InvalidHostnameError"
       /\ last.exit # 0
       /\ hostsFile = prevHosts
       /\ sshConfig = prevSsh
  /\ \A i \in 1..Len(Loaded.val) :
       /\ Loaded.val[i].k.t = "str"
       /\ NamingInvariant(Loaded.val[i].k.v)

----------------------------------------------------------------------------
(* get_host and load_hosts on a store somebody wrote by hand:               *)
(* specification SpecStore.                                                 *)

Plain(text) == YScalar("plain", text)
Pair(key, value) == [k |-> key, w |-> value]

\* hosts: {a: {ip: h, port: 22, user: u}, ab: null, 1: "x"}
docMalformedEntries ==
  YMap(<<Pair(Plain(K_hosts),
           YMap(<<Pair(Plain(nA),
                    YMap(<<Pair(Plain(K_ip), Plain(<<"h">>)),
                           Pair(Plain(K_port), Plain(<<"2", "2">>)),
                           Pair(Plain(K_user), Plain(<<"u">>))>>)),
                  Pair(Plain(nAB), Plain(<<"n","u","l","l">>)),
                  Pair(Plain(nDigit), YScalar("quoted", <<"x">>))>>))>>)

\* hosts: {a: {ip: h}}
docPartialEntry ==
  YMap(<<Pair(Plain(K_hosts),
           YMap(<<Pair(Plain(nA), YMap(<<Pair(Plain(K_ip), Plain(<<"h">>))>>))>>))>>)

\* hosts:            (no value)
docHostsNull == YMap(<<Pair(Plain(K_hosts), Plain(<<>>))>>)

\* x: 1              (no hosts key)
docNoHosts == YMap(<<Pair(Plain(<<"x">>), Plain(<<"1">>))>>)

\* - a               (the document is a list)
docList == YSeq(<<Plain(nA)>>)

\* a                 (the document is a bare word)
docWord == Plain(nA)

\* hosts: [a]
docHostsList == YMap(<<Pair(Plain(K_hosts), YSeq(<<Plain(nA)>>))>>)

StoreContents ==
  {MissingFile,
   FileOf(YEmpty),
   [exists |-> TRUE, parses |-> FALSE, doc |-> YEmpty],
   FileOf(docMalformedEntries),
   FileOf(docPartialEntry),
   FileOf(docHostsNull),
   FileOf(docNoHosts),
   FileOf(docList),
   FileOf(docWord),
   FileOf(docHostsList)}

InitStore ==
  /\ hostsFile \in StoreContents
  /\ sshConfig = MissingConfig
  /\ env \in Envs
  /\ last = NoCall
  /\ prevHosts = hostsFile
  /\ prevSsh = MissingConfig
  /\ steps = 0
  /\ ProcIdle

NextStore ==
  \/ \E name \in Names : GetHost(name)
  \/ LoadHosts

SpecStore == InitStore /\ [][NextStore]_vars

\* the names of the entries of the hosts mapping whose value is a mapping
WellFormedNames(file) ==
  LET entries == FileEntries(file)
      good == SelectSeq(entries, LAMBDA it : it.w.kind = "map")
  IN [i \in 1..Len(good) |-> Construct(good[i].k)]

\* C5: get_host and load_hosts never raise and never write, whatever the store
\* holds; a missing or empty store gives no host; load_hosts returns exactly
\* the entries whose value is a mapping.
C5_TolerantReads ==
  last.op \in {"get_host", "load_hosts"} =>
    /\ last.exc = ""
    /\ hostsFile = prevHosts
    /\ (~hostsFile.exists \/ hostsFile.doc = YEmpty) =>
         last.ret \in {PyNone, [t |-> "hosts", v |-> <<>>]}
    /\ (last.op = "load_hosts" /\ hostsFile.parses) =>
         [i \in 1..Len(last.ret.v) |-> last.ret.v[i].k] = WellFormedNames(hostsFile)

----------------------------------------------------------------------------
(* host_exists.                                                             *)

\* a `Host` directive of the config lists `name` among its patterns
ListedByHostDirective(cfg, name) ==
  \E i \in 1..Len(LinesOf(cfg)) :
    LET words == SplitWhitespace(LinesOf(cfg)[i])
    IN /\ Len(words) >= 2
       /\ Len(words[1]) = 1
       /\ LowerWord(words[1][1]) = "host"
       /\ \E k \in 2..Len(words) : words[k] = name

\* C11: for a valid alias, host_exists(name) is true exactly when the config
\* holds a dynamic block whose marker names exactly `name` or a `Host`
\* directive that lists `name` (false when the file is missing); it is true
\* right after add_ssh_host(name, ...) and, when no static entry names it,
\* false right after remove_ssh_host(name).
C11_HostExists ==
  /\ (last.op = "host_exists" /\ NamingInvariant(last.name)) =>
       last.ret = PyBool(HasBlock(sshConfig, last.name)
                         \/ ListedByHostDirective(sshConfig, last.name))
  /\ (last.op = "add_ssh_host" /\ NamingInvariant(last.name)) =>
       host_exists(sshConfig, last.name)
  /\ (last.op = "remove_ssh_host" /\ NamingInvariant(last.name)
      /\ \A i \in 1..Len(StaticLines(sshConfig)) :
           ~HostLineLists(StaticLines(sshConfig)[i], last.name)) =>
       ~host_exists(sshConfig, last.name)

----------------------------------------------------------------------------
(* `mesh host add` and `mesh host remove` with their default flags, over    *)
(* aliases that satisfy the naming invariant: specification SpecSync.       *)

SyncNames == {n \in Names : validate_hostname(n) /\ NamingInvariant(n)}

NextSync ==
  \/ \E name \in SyncNames, d \in Descs : HostAdd(name, d, FALSE)
  \/ \E name \in SyncNames : HostRemove(name, FALSE)

SpecSync == Init /\ [][NextSync]_vars

\* the lines of the dynamic block that states what the registry holds for name
BlockFor(h) ==
  SplitLines(Strip(SshEntry(h.name.v, h.ip.v, h.port.v, h.user.v)))

\* C12: a name has a registry entry if and only if the SSH config holds a
\* dynamic block for it, and the HostName, Port and User of that block are
\* the address, port and user of the registry entry.
C12_ViewsInSync ==
  \A name \in SyncNames :
    /\ DictHas(Loaded.val, PyStr(name)) <=> HasBlock(sshConfig, name)
    /\ DictHas(Loaded.val, PyStr(name)) =>
         BlockOf(sshConfig, name) = BlockFor(DictGet(Loaded.val, PyStr(name), PyNone))

----------------------------------------------------------------------------
(* add_ssh_host and remove_ssh_host statement by statement, with the        *)
(* process killed at any point: specification SpecWrite.                    *)

\* add_ssh_host up to the call of write_text: the content to write is ready
BeginAddSshHost(name, d) ==
  /\ steps < MaxWriteOps
  /\ wr.phase \in {"idle", "returned"}
  /\ wr' = [phase |-> "open", op |-> "add_ssh_host", name |-> name,
            old |-> sshConfig,
            new |-> add_ssh_host(sshConfig, name, d.ip, d.port, d.user.v).cfg.text]
  /\ prevSsh' = sshConfig
  /\ steps' = steps + 1
  /\ UNCHANGED <<hostsFile, sshConfig, env, last, prevHosts, pc, sess, events>>

\* remove_ssh_host up to the call of write_text, or to `return False`
BeginRemoveSshHost(name) ==
  LET r == remove_ssh_host(sshConfig, name)
  IN /\ steps < MaxWriteOps
     /\ wr.phase \in {"idle", "returned"}
     /\ IF r.ret
        THEN /\ wr' = [phase |-> "open", op |-> "remove_ssh_host", name |-> name,
                       old |-> sshConfig, new |-> r.cfg.text]
             /\ last' = last
        ELSE /\ wr' = [phase |-> "returned", op |-> "remove_ssh_host", name |-> name,
                       old |-> sshConfig, new |-> sshConfig.text]
             /\ last' = Call("remove_ssh_host", name, NoDesc, FALSE, "", PyBool(FALSE), 0)
     /\ prevSsh' = sshConfig
     /\ steps' = steps + 1
     /\ UNCHANGED <<hostsFile, sshConfig, env, prevHosts, pc, sess, events>>

\* write_text: open(mode="w") creates the file or truncates it
OpenForWrite ==
  /\ wr.phase = "open"
  /\ sshConfig' = [exists |-> TRUE, text |-> <<>>]
  /\ wr' = [wr EXCEPT !.phase = "write"]
  /\ UNCHANGED <<hostsFile, env, last, prevHosts, prevSsh, steps, pc, sess, events>>

\* write_text: the next chunk of the content reaches the file
WriteChunk ==
  LET done == Len(sshConfig.text)
      upto == IF done + ChunkLen < Len(wr.new) THEN done + ChunkLen ELSE Len(wr.new)
  IN /\ wr.phase = "write"
     /\ done < Len(wr.new)
     /\ sshConfig' = [exists |-> TRUE, text |-> SubSeq(wr.new, 1, upto)]
     /\ UNCHANGED <<hostsFile, env, last, prevHosts, prevSsh, steps, wr, pc, sess, events>>

\* write_text closes the file; chmod (add_ssh_host only); return True
CloseAndReturn ==
  /\ wr.phase = "write"
  /\ Len(sshConfig.text) = Len(wr.new)
  /\ wr' = [wr EXCEPT !.phase = "returned"]
  /\ last' = Call(wr.op, wr.name, NoDesc, FALSE, "", PyBool(TRUE), 0)
  /\ UNCHANGED <<hostsFile, sshConfig, env, prevHosts, prevSsh, steps, pc, sess, events>>

\* the process is killed between two statements
Interrupt ==
  /\ wr.phase \in {"open", "write"}
  /\ wr' = [wr EXCEPT !.phase = "killed"]
  /\ UNCHANGED <<hostsFile, sshConfig, env, last, prevHosts, prevSsh, steps, pc, sess, events>>

NextWrite ==
  \/ \E name \in SshNames, d \in SshDescs : BeginAddSshHost(name, d)
  \/ \E name \in SshNames : BeginRemoveSshHost(name)
  \/ OpenForWrite
  \/ WriteChunk
  \/ CloseAndReturn
  \/ Interrupt

SpecWrite == InitSsh /\ [][NextWrite]_vars

\* C13: when the process was killed during add_ssh_host or remove_ssh_host,
\* the config holds the complete previous content or the complete new
\* content, never an empty, truncated or partial one.
C13_AllOrNothing ==
  wr.phase = "killed" =>
    \/ sshConfig.text = wr.old.text
    \/ sshConfig.text = wr.new

----------------------------------------------------------------------------
(* `mesh remote provision`, one remote command at a time: specification     *)
(* SpecProvision.  The target host and the coordination server answer as    *)
(* they please: every answer is drawn from a set of sample answers.         *)
(* A command line is named by a short string; the output of a remote        *)
(* command is a sequence of words.                                          *)

UpperAlphabet ==
  <<"A","B","C","D","E","F","G","H","I","J","K","L","M",
    "N","O","P","Q","R","S","T","U","V","W","X","Y","Z">>

LowerAlphabet ==
  <<"a","b","c","d","e","f","g","h","i","j","k","l","m",
    "n","o","p","q","r","s","t","u","v","w","x","y","z">>

LowerChar(c) ==
  IF \E i \in 1..26 : UpperAlphabet[i] = c
  THEN LowerAlphabet[CHOOSE i \in 1..26 : UpperAlphabet[i] = c]
  ELSE c

\* str.lower()
Lower(s) == [i \in 1..Len(s) |-> LowerChar(s[i])]

\* the positions of symbol c in s
Positions(s, c) == {i \in 1..Len(s) : s[i] = c}

\* _extract_hostname(host)
extract_hostname(host) ==
  LET ats == Positions(host, "@")
      h == IF ats = {} THEN host
           ELSE SubSeq(host, (CHOOSE i \in ats : \A j \in ats : j <= i) + 1, Len(host))
      dots == Positions(h, ".")
  IN Lower(IF dots = {} THEN h
           ELSE SubSeq(h, 1, (CHOOSE i \in dots : \A j \in dots : i <= j) - 1))

\* a membership test that compares the names as they are written
is_already_provisioned_CaseSensitive(hostname, nodes) ==
  \E i \in 1..Len(nodes) : nodes[i] = hostname

\* _is_already_provisioned(hostname, user), given what list_nodes returned:
\* the givenName of every node
is_already_provisioned(hostname, nodes) ==
  \E i \in 1..Len(nodes) : Lower(nodes[i]) = Lower(hostname)

\* the signatures `sig in output.lower()` finds in one word of an output
SignaturesIn(word) ==
  CASE word = "Linux" -> {"linux"}
    [] word = "Darwin" -> {"darwin"}
    [] word = "MSYS_NT-10.0" -> {"msys"}
    [] word = "MINGW64_NT" -> {"mingw"}
    [] word = "CYGWIN_NT" -> {"cygwin"}
    [] word = "Windows_NT" -> {"windows"}
    [] OTHER -> {}

\* sig in output.lower()
HasSignature(output, sig) == \E i \in 1..Len(output) : sig \in SignaturesIn(output[i])

\* a detection that knows the signature of Linux only
FamilyOfUname_LinuxOnly(success, output) ==
  IF success /\ HasSignature(output, "linux") THEN "linux" ELSE ""

\* detect_remote_os after `uname -s`: the family, or "" to go on probing
FamilyOfUname(success, output) ==
  IF ~success THEN ""
  ELSE IF HasSignature(output, "linux") THEN "linux"
  ELSE IF HasSignature(output, "darwin") THEN "macos"
  ELSE IF \E sig \in {"msys", "mingw", "cygwin"} : HasSignature(output, sig) THEN "windows"
  ELSE ""

\* detect_remote_os after `echo %OS%` and after `powershell -Command "$env:OS"`
FamilyOfWindowsProbe(success, output) ==
  IF success /\ HasSignature(output, "windows") THEN "windows" ELSE ""

\* one thing done to the outside world, with its answer
Event(act, cmd, ok, out) == [act |-> act, cmd |-> cmd, ok |-> ok, out |-> out]

\* ssh_run(host, port, cmd) and what came back
Ssh(cmd, ok, out) == Event("ssh", cmd, ok, out)

\* a message on the operator's terminal
Say(msg) == Event("say", msg, TRUE, <<>>)

\* the registry the commands find: the alias "B" and the alias "w"
ProvisionRegistry ==
  save_hosts(<<[k |-> PyStr(<<"B">>),
                w |-> [name |-> PyStr(<<"B">>), ip |-> PyStr(<<"h">>),
                       port |-> PyInt(2222), user |-> PyStr(<<"u">>)]],
               [k |-> PyStr(<<"w">>),
                w |-> [name |-> PyStr(<<"w">>), ip |-> PyStr(<<"g">>),
                       port |-> PyInt(22), user |-> PyStr(<<"v">>)]]>>)

\* the `host` argument: a registered alias, user@host.domain, a bare name
Targets == {<<"B">>, <<"u", "@", "C", ".", "l">>, <<"d">>}

\* the --server option: a URL (also what get_default_server_url builds), and
\* an address typed without a scheme
urlFull == <<"http", ":", "/", "/", "s", ":", "8080">>
urlBare == <<"s", ":", "8080">>
ServerUrls == {urlFull, urlBare}

\* what list_nodes may return: the givenName of every member
MemberLists ==
  {<<>>, <<<<"b">>>>, <<<<"x">>, <<"C">>>>, <<<<"h">>, <<"u", "@", "h">>, <<"l">>>>}

\* the join credential create_preauth_key returns
TheKey == "K"

UnameAnswers ==
  {[ok |-> TRUE, out |-> <<"Linux">>],
   [ok |-> TRUE, out |-> <<"Darwin">>],
   [ok |-> TRUE, out |-> <<"MSYS_NT-10.0">>],
   [ok |-> TRUE, out |-> <<"FreeBSD">>],
   [ok |-> TRUE, out |-> <<"CYGWIN_NT", "Linux">>],
   [ok |-> FALSE, out |-> <<"Linux">>],
   [ok |-> FALSE, out |-> <<"not", "recognized">>]}

WindowsProbeAnswers ==
  {[ok |-> TRUE, out |-> <<"Windows_NT">>],
   [ok |-> TRUE, out |-> <<"%OS%">>],
   [ok |-> FALSE, out |-> <<"Windows_NT">>]}

InitProvision ==
  /\ hostsFile = ProvisionRegistry
  /\ sshConfig = MissingConfig
  /\ env = [MESH_DEFAULT_USER |-> PyNone, USER |-> PyStr(<<"u">>)]
  /\ last = NoCall
  /\ prevHosts = hostsFile
  /\ prevSsh = sshConfig
  /\ steps = 0
  /\ ProcIdle

\* the variables no step of a `mesh remote` command changes
Untouched == <<hostsFile, sshConfig, env, last, prevHosts, prevSsh, steps, wr>>

\* the command ends with typer.Exit(code), or returns (code 0)
Ended(code, outcome, done) ==
  /\ pc' = "done"
  /\ sess' = [sess EXCEPT !.exit = code, !.outcome = outcome]
  /\ events' = done

\* the command goes on at `next`
GoOn(next, done) ==
  /\ pc' = next
  /\ sess' = sess
  /\ events' = done

\* how provision ends a session: exit code, outcome, last message
P(code, outcome, msg) == [exit |-> code, outcome |-> outcome, say |-> <<Say(msg)>>]

\* how provision_all ends the session of one host: the entry it appends to
\* results, as (label, success, status, os_type)
B(success, status, os_type) == [success |-> success, status |-> status, os |-> os_type]

\* the session of the current host is over: provision exits, provision_all
\* records the result and turns to the next host
SessionEnds(p, b, done) ==
  IF sess.cmd = "provision"
  THEN Ended(p.exit, p.outcome, done \o p.say)
  ELSE /\ pc' = "next host"
       /\ sess' = [sess EXCEPT !.results = Append(@, [label |-> sess.label,
                                  success |-> b.success, status |-> b.status, os |-> b.os])]
       /\ events' = done

\* provision, up to the idempotency check: resolve the target
ProvisionStart(host, server, force, skip_syncthing) ==
  LET registered_host == get_host(hostsFile, env, host).ret
      use_registry == registered_host # PyNone /\ Positions(host, "@") = {}
      resolved == IF use_registry
                  THEN registered_host.v.user.v \o <<"@">> \o registered_host.v.ip.v
                  ELSE host
  IN /\ pc = "idle"
     /\ pc' = "idempotency"
     /\ sess' = [NoSession EXCEPT
                   !.cmd = "provision", !.original_name = host, !.host = resolved,
                   !.port = IF use_registry THEN registered_host.v.port.v ELSE 22,
                   !.server = server, !.force = force,
                   !.skip_syncthing = skip_syncthing,
                   !.hostname = IF registered_host # PyNone THEN host
                                ELSE extract_hostname(resolved)]
     /\ events' = <<>>
     /\ UNCHANGED Untouched

\* a check that asks for the member list whether or not force is set
IdempotencyCheck_IgnoresForce ==
  /\ pc = "idempotency"
  /\ \E nodes \in MemberLists :
       LET asked == events \o <<Event("list_nodes", "", TRUE, nodes)>>
       IN IF is_already_provisioned(sess.hostname, nodes)
          THEN SessionEnds(P(0, "already provisioned", "already provisioned"),
                           B(TRUE, "already provisioned", ""), asked)
          ELSE /\ pc' = "connectivity"
               /\ events' = asked
               /\ sess' = sess
  /\ UNCHANGED Untouched

\* if not force and _is_already_provisioned(hostname, user): ... return
IdempotencyCheck ==
  /\ pc = "idempotency"
  /\ \E nodes \in MemberLists :
       IF sess.force
       THEN /\ pc' = "connectivity"
            /\ sess' = [sess EXCEPT !.listed = is_already_provisioned(sess.hostname, nodes)]
            /\ events' = events
       ELSE LET asked == events \o <<Event("list_nodes", "", TRUE, nodes)>>
            IN IF is_already_provisioned(sess.hostname, nodes)
               THEN SessionEnds(P(0, "already provisioned", "already provisioned"),
                                B(TRUE, "already provisioned", ""), asked)
               ELSE /\ pc' = "connectivity"
                    /\ events' = asked
                    /\ sess' = sess
  /\ UNCHANGED Untouched

\* a session that goes on to OS detection whatever the target answers
ConnectivityCheck_GoesOn ==
  /\ pc = "connectivity"
  /\ \E ok \in BOOLEAN :
       /\ pc' = "uname"
       /\ events' = events \o <<Ssh("echo connected", ok, <<>>)>>
       /\ sess' = sess
  /\ UNCHANGED Untouched

\* ssh_run(host, port, "echo connected")
ConnectivityCheck ==
  /\ pc = "connectivity"
  /\ \E ok \in BOOLEAN :
       LET sent == events \o <<Ssh("echo connected", ok, <<>>)>>
       IN IF ok
          THEN /\ pc' = "uname"
               /\ events' = sent
               /\ sess' = sess
          ELSE SessionEnds(P(1, "cannot connect", "Cannot connect"),
                           B(FALSE, "unreachable", ""), sent)
  /\ UNCHANGED Untouched

\* a session that configures a detected Unix host without a join credential
Detected_SkipsCredential(os_type, sent) ==
  IF os_type = ""
  THEN SessionEnds(P(1, "no OS detected", "Could not detect remote OS"),
                   B(FALSE, "unknown OS", ""), sent)
  ELSE /\ pc' = IF os_type = "linux" THEN "which tailscale" ELSE "credential"
       /\ sess' = [sess EXCEPT !.os_type = os_type]
       /\ events' = sent

\* where provision goes once detect_remote_os has returned os_type
Detected(os_type, sent) ==
  IF os_type = ""
  THEN SessionEnds(P(1, "no OS detected", "Could not detect remote OS"),
                   B(FALSE, "unknown OS", ""), sent)
  ELSE /\ pc' = "credential"
       /\ sess' = [sess EXCEPT !.os_type = os_type]
       /\ events' = sent

\* detect_remote_os: ssh_run(host, port, "uname -s")
ProbeUname ==
  /\ pc = "uname"
  /\ \E a \in UnameAnswers :
       IF FamilyOfUname(a.ok, a.out) # ""
       THEN Detected(FamilyOfUname(a.ok, a.out), events \o <<Ssh("uname -s", a.ok, a.out)>>)
       ELSE /\ pc' = "echo %OS%"
            /\ events' = events \o <<Ssh("uname -s", a.ok, a.out)>>
            /\ sess' = sess
  /\ UNCHANGED Untouched

\* detect_remote_os: ssh_run(host, port, "echo %OS%")
ProbeEchoOs ==
  /\ pc = "echo %OS%"
  /\ \E a \in WindowsProbeAnswers :
       IF FamilyOfWindowsProbe(a.ok, a.out) # ""
       THEN Detected("windows", events \o <<Ssh("echo %OS%", a.ok, a.out)>>)
       ELSE /\ pc' = "powershell $env:OS"
            /\ events' = events \o <<Ssh("echo %OS%", a.ok, a.out)>>
            /\ sess' = sess
  /\ UNCHANGED Untouched

\* detect_remote_os: ssh_run(host, port, 'powershell -Command "$env:OS"')
ProbePowershell ==
  /\ pc = "powershell $env:OS"
  /\ \E a \in WindowsProbeAnswers :
       Detected(FamilyOfWindowsProbe(a.ok, a.out),
                events \o <<Ssh("powershell $env:OS", a.ok, a.out)>>)
  /\ UNCHANGED Untouched

\* auth_key = create_preauth_key(user), then the branch on os_type
IssueCredential ==
  /\ pc = "credential"
  /\ \E key \in {"", TheKey} :
       LET asked == events \o <<Event("create_preauth_key", "", key # "", <<>>)>>
       IN IF key = ""
          THEN SessionEnds(P(1, "no auth key", "Failed to generate auth key"),
                           B(FALSE, "no auth key", ""), asked)
          ELSE IF sess.os_type = "linux"
          THEN /\ pc' = "which tailscale"
               /\ sess' = [sess EXCEPT !.auth_key = key]
               /\ events' = asked
          ELSE IF sess.os_type = "windows"
          THEN /\ pc' = "vpn conflicts"
               /\ sess' = [sess EXCEPT !.auth_key = key]
               /\ events' = asked
          ELSE SessionEnds(P(1, "unsupported OS", "Unsupported OS"),
                           B(FALSE, "failed", sess.os_type), asked)
  /\ UNCHANGED Untouched

\* server_url.split("//")[1].split(":")[0]; <<"IndexError">> when the URL
\* holds no "//"
ServerHostOf(url) ==
  LET slashes == {i \in 1..(Len(url) - 1) : url[i] = "/" /\ url[i + 1] = "/"}
  IN IF slashes = {} THEN <<"IndexError">>
     ELSE LET first == CHOOSE i \in slashes : \A j \in slashes : i <= j
              later == {i \in slashes : i >= first + 2}
              stop == IF later = {} THEN Len(url) + 1
                      ELSE CHOOSE i \in later : \A j \in later : i <= j
              part == SubSeq(url, first + 2, stop - 1)
              colons == Positions(part, ":")
          IN IF colons = {} THEN part
             ELSE SubSeq(part, 1, (CHOOSE i \in colons : \A j \in colons : i <= j) - 1)

\* what `tailscale status` may print: peers of the server "s", of another
\* server, nothing
StatusOutputs == {<<"s">>, <<"t">>, <<>>}

\* provision after provision_linux returned False
LinuxFailed(done) ==
  SessionEnds(P(1, "provisioning failed", "Provisioning failed"),
              B(FALSE, "failed", "linux"), done)

\* provision after provision_linux returned True
LinuxDone(done) ==
  IF sess.cmd = "provision" /\ ~sess.skip_syncthing
  THEN GoOn("which syncthing", done)
  ELSE SessionEnds(P(0, "complete", "Provisioning Complete"),
                   B(TRUE, "provisioned", "linux"), done)

\* provision_linux: ssh_run(host, port, "which tailscale")
LinuxWhich ==
  /\ pc = "which tailscale"
  /\ \E ok \in BOOLEAN :
       IF ok
       THEN GoOn("tailscale up", events \o <<Ssh("which tailscale", TRUE, <<>>),
                                            Say("Tailscale already installed")>>)
       ELSE GoOn("install.sh", events \o <<Ssh("which tailscale", FALSE, <<>>)>>)
  /\ UNCHANGED Untouched

\* provision_linux: ssh_run(host, port, "curl -fsSL .../install.sh | sudo sh")
LinuxInstall ==
  /\ pc = "install.sh"
  /\ \E ok \in BOOLEAN, out \in {<<>>, <<"password">>} :
       IF ok
       THEN GoOn("tailscale up", events \o <<Ssh("install.sh", ok, out)>>)
       ELSE LinuxFailed(events \o <<Ssh("install.sh", ok, out),
                                    Say("Failed to install Tailscale")>>)
  /\ UNCHANGED Untouched

\* provision_linux: ssh_run(host, port, "sudo tailscale up --login-server=...
\* --authkey=...")
LinuxJoin ==
  /\ pc = "tailscale up"
  /\ \E ok \in BOOLEAN :
       IF ok
       THEN GoOn("tailscale ip", events \o <<Ssh("tailscale up", TRUE, <<>>)>>)
       ELSE GoOn("tailscale status", events \o <<Ssh("tailscale up", FALSE, <<>>)>>)
  /\ UNCHANGED Untouched

\* a status check whose IndexError ends the command, in the batch as well
LinuxStatus_Propagates ==
  /\ pc = "tailscale status"
  /\ \E ok \in BOOLEAN, out \in StatusOutputs :
       LET sent == events \o <<Ssh("tailscale status", ok, out)>>
       IN IF ok /\ ServerHostOf(sess.server) = <<"IndexError">>
          THEN Ended(1, "IndexError", sent)
          ELSE IF ok /\ Contains(ServerHostOf(sess.server), out)
          THEN GoOn("tailscale ip", sent \o <<Say("Already connected to mesh")>>)
          ELSE LinuxFailed(sent \o <<Say("Failed to connect")>>)
  /\ UNCHANGED Untouched

\* provision_linux: the join failed; ssh_run(host, port, "tailscale status")
LinuxStatus ==
  /\ pc = "tailscale status"
  /\ \E ok \in BOOLEAN, out \in StatusOutputs :
       LET sent == events \o <<Ssh("tailscale status", ok, out)>>
       IN IF ok /\ ServerHostOf(sess.server) = <<"IndexError">>
          THEN SessionEnds([exit |-> 1, outcome |-> "IndexError", say |-> <<>>],
                           B(FALSE, "list index out of range", ""), sent)
          ELSE IF ok /\ Contains(ServerHostOf(sess.server), out)
          THEN GoOn("tailscale ip", sent \o <<Say("Already connected to mesh")>>)
          ELSE LinuxFailed(sent \o <<Say("Failed to connect")>>)
  /\ UNCHANGED Untouched

\* provision_linux: ssh_run(host, port, "tailscale ip -4"); return True
LinuxVerify ==
  /\ pc = "tailscale ip"
  /\ \E ok \in BOOLEAN :
       LinuxDone(events \o <<Ssh("tailscale ip -4", ok, <<>>)>>)
  /\ UNCHANGED Untouched

\* provision: ssh_run(host, port, "which syncthing")
SyncthingWhich ==
  /\ pc = "which syncthing"
  /\ \E ok \in BOOLEAN :
       IF ok
       THEN Ended(0, "complete", events \o <<Ssh("which syncthing", TRUE, <<>>),
                                            Say("Provisioning Complete")>>)
       ELSE GoOn("apt-get install syncthing",
                 events \o <<Ssh("which syncthing", FALSE, <<>>)>>)
  /\ UNCHANGED Untouched

\* provision: ssh_run(host, port, "sudo apt-get update && sudo apt-get
\* install -y syncthing")
SyncthingInstall ==
  /\ pc = "apt-get install syncthing"
  /\ \E ok \in BOOLEAN :
       Ended(0, "complete", events \o <<Ssh("apt-get install syncthing", ok, <<>>),
                                        Say("Provisioning Complete")>>)
  /\ UNCHANGED Untouched

\* re.search(r"://([^:/]+)", server_url): group 1, or <<>> without a match
ServerIpOf(url) ==
  LET starts == {i \in 1..(Len(url) - 3) :
                   /\ url[i] = ":" /\ url[i + 1] = "/" /\ url[i + 2] = "/"
                   /\ url[i + 3] \notin {":", "/"}}
  IN IF starts = {} THEN <<>>
     ELSE LET first == (CHOOSE i \in starts : \A j \in starts : i <= j) + 3
              stops == {i \in first..Len(url) : url[i] \in {":", "/"}}
              stop == IF stops = {} THEN Len(url) + 1
                      ELSE CHOOSE i \in stops : \A j \in stops : i <= j
          IN SubSeq(url, first, stop - 1)

\* the probes of check_windows_vpn_conflicts, in the order it sends them, the
\* word each looks for ("" : any output that is not blank) and the name it
\* reports
VpnProbes ==
  <<[cmd |-> "Get-Service NordVPN*", word |-> "Running", name |-> "NordVPN"],
    [cmd |-> "Get-NetAdapter NordLynx", word |-> "Up", name |-> "NordLynx"],
    [cmd |-> "Get-Service ExpressVPN*", word |-> "", name |-> "ExpressVPN"],
    [cmd |-> "Get-Service Surfshark*", word |-> "", name |-> "Surfshark"],
    [cmd |-> "Get-Service CyberGhost*", word |-> "", name |-> "CyberGhost"],
    [cmd |-> "Get-Service pia*", word |-> "", name |-> "Private Internet Access"]>>

Quiet == [ok |-> TRUE, out |-> <<>>]

\* what the six probes may answer: no VPN; NordVPN running; the NordLynx
\* adapter up and a Surfshark service; a pia service, with the first probe
\* failing after it printed "Running"
VpnAnswers ==
  {<<Quiet, Quiet, Quiet, Quiet, Quiet, Quiet>>,
   <<[ok |-> TRUE, out |-> <<"Running">>], Quiet, Quiet, Quiet, Quiet, Quiet>>,
   <<[ok |-> TRUE, out |-> <<"Stopped">>], [ok |-> TRUE, out |-> <<"Up">>],
     Quiet, [ok |-> TRUE, out |-> <<"Running">>], Quiet, Quiet>>,
   <<[ok |-> FALSE, out |-> <<"Running">>], Quiet, Quiet, Quiet, Quiet,
     [ok |-> TRUE, out |-> <<"Running">>]>>}

\* the test check_windows_vpn_conflicts makes on the answer to probe i
VpnDetected(i, a) ==
  /\ a.ok
  /\ IF VpnProbes[i].word = "" THEN Strip(a.out) # <<>>
     ELSE \E k \in 1..Len(a.out) : a.out[k] = VpnProbes[i].word

RECURSIVE ConflictsFrom(_, _)
\* check_windows_vpn_conflicts: the list it returns, from probe i on
ConflictsFrom(i, answers) ==
  IF i > Len(VpnProbes) THEN <<>>
  ELSE (IF VpnDetected(i, answers[i]) THEN <<VpnProbes[i].name>> ELSE <<>>)
       \o ConflictsFrom(i + 1, answers)

\* a provision that treats the False of provision_windows as it treats the
\* False of provision_linux
WindowsReturned_AsFailure(done) ==
  SessionEnds(P(1, "provisioning failed", "Provisioning failed"),
              B(FALSE, "failed", "windows"), done)

\* provision after provision_windows returned (it always returns False)
WindowsReturned(done) ==
  SessionEnds(P(0, "windows setup incomplete", "Windows Setup Incomplete"),
              B(FALSE, "failed", "windows"), done)

\* provision_windows: conflicts = check_windows_vpn_conflicts(host, port)
WindowsVpnConflicts ==
  /\ pc = "vpn conflicts"
  /\ \E answers \in VpnAnswers :
       LET sent == events \o [i \in 1..Len(VpnProbes) |->
                                Ssh(VpnProbes[i].cmd, answers[i].ok, answers[i].out)]
           conflicts == ConflictsFrom(1, answers)
       IN /\ sess' = [sess EXCEPT !.conflicts = conflicts]
          /\ IF conflicts = <<>>
             THEN /\ pc' = "Test-Path"
                  /\ events' = sent
             ELSE /\ pc' = IF ServerIpOf(sess.server) # <<>> THEN "curl health"
                           ELSE "Test-Path"
                  /\ events' = sent \o <<Say("Detected conflicting VPN(s)")>>
  /\ UNCHANGED Untouched

\* a reachability probe whose failure is reported and not acted upon
WindowsLanAccess_Advisory ==
  /\ pc = "curl health"
  /\ \E a \in {[ok |-> TRUE, out |-> <<"200">>], [ok |-> TRUE, out |-> <<"000">>],
               [ok |-> FALSE, out |-> <<"200">>]} :
       LET sent == events \o <<Ssh("curl health", a.ok, a.out)>>
       IN IF ~a.ok \/ ~Contains(<<"200">>, a.out)
          THEN GoOn("Test-Path", sent \o <<Say("VPN is blocking access")>>)
          ELSE GoOn("Test-Path", sent)
  /\ UNCHANGED Untouched

\* provision_windows: check_windows_vpn_lan_access(host, port, server_ip)
WindowsLanAccess ==
  /\ pc = "curl health"
  /\ \E a \in {[ok |-> TRUE, out |-> <<"200">>], [ok |-> TRUE, out |-> <<"000">>],
               [ok |-> FALSE, out |-> <<"200">>]} :
       LET sent == events \o <<Ssh("curl health", a.ok, a.out)>>
       IN IF ~a.ok \/ ~Contains(<<"200">>, a.out)
          THEN WindowsReturned(sent \o <<Say("VPN is blocking access")>>)
          ELSE GoOn("Test-Path", sent)
  /\ UNCHANGED Untouched

\* provision_windows: ssh_run(host, port, "powershell Test-Path tailscale.exe")
WindowsTestPath ==
  /\ pc = "Test-Path"
  /\ \E a \in {[ok |-> TRUE, out |-> <<"True">>], [ok |-> TRUE, out |-> <<"False">>],
               [ok |-> FALSE, out |-> <<>>]} :
       LET sent == events \o <<Ssh("Test-Path", a.ok, a.out)>>
       IN IF ~a.ok \/ Contains(<<"False">>, a.out)
          THEN GoOn("winget install", sent)
          ELSE GoOn("registry", sent \o <<Say("Tailscale is installed")>>)
  /\ UNCHANGED Untouched

\* provision_windows: ssh_run(host, port, "winget install Tailscale")
WindowsInstall ==
  /\ pc = "winget install"
  /\ \E a \in {[ok |-> TRUE, out |-> <<>>], [ok |-> FALSE, out |-> <<"already installed">>],
               [ok |-> FALSE, out |-> <<"error">>]} :
       LET sent == events \o <<Ssh("winget install", a.ok, a.out)>>
       IN IF ~a.ok /\ ~Contains(<<"already installed">>, a.out)
          THEN WindowsReturned(sent \o <<Say("Failed to install Tailscale via winget")>>)
          ELSE GoOn("Start-Sleep", sent)
  /\ UNCHANGED Untouched

\* provision_windows: ssh_run(host, port, "Start-Sleep 5"), result not read
WindowsSleep ==
  /\ pc = "Start-Sleep"
  /\ \E ok \in BOOLEAN : GoOn("registry", events \o <<Ssh("Start-Sleep 5", ok, <<>>)>>)
  /\ UNCHANGED Untouched

\* provision_windows: ssh_run(host, port, reg_cmd): LoginURL, AuthKey,
\* UnattendedMode
WindowsRegistry ==
  /\ pc = "registry"
  /\ \E ok \in BOOLEAN : GoOn("mkdir", events \o <<Ssh("Set-ItemProperty", ok, <<>>)>>)
  /\ UNCHANGED Untouched

\* sep.join(words)
RECURSIVE JoinWith(_, _)
JoinWith(sep, words) ==
  IF words = <<>> THEN <<>>
  ELSE IF Len(words) = 1 THEN <<words[1]>>
  ELSE <<words[1], sep>> \o JoinWith(sep, Tail(words))

\* provision_windows: the header of the script, with the VPN warning when
\* conflicts were detected
header_lines(server_url, conflicts) ==
  <<<<"# join-mesh.ps1 - Generated by mesh remote provision">>,
    <<"# Server: ">> \o server_url,
    <<"# Log: C:\\temp\\join-mesh.log">>>>
  \o (IF conflicts # <<>>
      THEN <<<<"# WARNING: Detected conflicting VPN(s): ">> \o JoinWith(", ", conflicts),
             <<"# Consider disconnecting before running.">>>>
      ELSE <<>>)
  \o <<<<>>>>

\* provision_windows: the lines of join-mesh.ps1; a line is the text of its
\* parts, the words Log and Write-Host and the variable $AuthKey being parts
\* of their own
script_lines(server_url, auth_key, conflicts) ==
  header_lines(server_url, conflicts) \o
  <<<<"$ErrorActionPreference = 'Continue'">>,
    <<"$TailscaleExe = 'C:\\Program Files\\Tailscale\\tailscale.exe'">>,
    <<"$ServerUrl = '">> \o server_url \o <<"'">>,
    <<"$AuthKey", " = '">> \o <<auth_key>> \o <<"'">>,
    <<"$LogFile = 'C:\\temp\\join-mesh.log'">>,
    <<>>,
    <<"# Start transcript logging">>,
    <<"Start-Transcript -Path $LogFile -Force">>,
    <<>>,
    <<"function Log($msg) { $ts = Get-Date -Format 'HH:mm:ss'; Write-Host \"[$ts] $msg\" }">>,
    <<>>,
    <<"Write-Host", " '=== Joining Mesh Network ===' -ForegroundColor Cyan">>,
    <<"Log", " \"Starting mesh join - Server: $ServerUrl\"">>,
    <<>>,
    <<"# Step 1: Stop any running Tailscale processes">>,
    <<"Write-Host", " '[1/5] Stopping Tailscale processes...' -ForegroundColor Yellow">>,
    <<"Log", " 'Stopping tailscale-ipn process...'">>,
    <<"Stop-Process -Name 'tailscale-ipn' -Force -ErrorAction SilentlyContinue">>,
    <<"Log", " 'Stopping Tailscale service...'">>,
    <<"Stop-Service Tailscale -Force -ErrorAction SilentlyContinue">>,
    <<"Start-Sleep 2">>,
    <<"Log", " 'Step 1 complete'">>,
    <<>>,
    <<"# Step 2: Configure registry for this mesh">>,
    <<"Write-Host", " '[2/5] Configuring mesh settings...' -ForegroundColor Yellow">>,
    <<"$regPath = 'HKLM:\\SOFTWARE\\Tailscale IPN'">>,
    <<"Log", " \"Setting registry: $regPath\"">>,
    <<"if (!(Test-Path $regPath)) { New-Item -Path $regPath -Force | Out-Null }">>,
    <<"Set-ItemProperty -Path $regPath -Name 'LoginURL' -Value $ServerUrl">>,
    <<"Set-ItemProperty -Path $regPath -Name 'UnattendedMode' -Value 'always'">>,
    <<"Log", " 'Step 2 complete'">>,
    <<>>,
    <<"# Step 3: Start fresh service">>,
    <<"Write-Host", " '[3/5] Starting Tailscale service...' -ForegroundColor Yellow">>,
    <<"Log", " 'Starting Tailscale service...'">>,
    <<"Start-Service Tailscale">>,
    <<"Start-Sleep 3">>,
    <<"$svcStatus = (Get-Service Tailscale).Status">>,
    <<"Log", " \"Service status: $svcStatus\"">>,
    <<"Log", " 'Step 3 complete'">>,
    <<>>,
    <<"# Step 4: Connect to mesh">>,
    <<"Write-Host", " '[4/5] Connecting to mesh network...' -ForegroundColor Yellow">>,
    <<"Log", " 'Running tailscale up (timeout 30s)...'">>,
    <<"Log", " \"Command: $TailscaleExe up --login-server=$ServerUrl --authkey=<redacted> --accept-routes --unattended --reset --timeout=30s\"">>,
    <<>>,
    <<"# Capture output and run with job to detect hangs">>,
    <<"$upOutput = & $TailscaleExe up --login-server=$ServerUrl --authkey=", "$AuthKey", " --accept-routes --unattended --reset --timeout=30s 2>&1 | Out-String">>,
    <<"$connectResult = $LASTEXITCODE">>,
    <<"Log", " \"tailscale up exit code: $connectResult\"">>,
    <<"Log", " \"tailscale up output: $upOutput\"">>,
    <<>>,
    <<"# Step 5: Verify connection">>,
    <<"Write-Host", " '[5/5] Verifying connection...' -ForegroundColor Yellow">>,
    <<"Start-Sleep 2">>,
    <<"Log", " 'Checking tailscale status...'">>,
    <<"$status = & $TailscaleExe status 2>&1 | Out-String">>,
    <<"Log", " \"Status output: $status\"">>,
    <<>>,
    <<"Write-Host", " ''">>,
    <<"if ($connectResult -eq 0 -and $status -notmatch 'Logged out') {">>,
    <<"    ", "Write-Host", " 'SUCCESS: Connected to mesh network!' -ForegroundColor Green">>,
    <<"    ", "Log", " 'SUCCESS'">>,
    <<"    ", "Write-Host", " ''">>,
    <<"    & $TailscaleExe status">>,
    <<"} else {">>,
    <<"    ", "Write-Host", " 'FAILED: Could not connect to mesh' -ForegroundColor Red">>,
    <<"    ", "Write-Host", " \"Status: $status\" -ForegroundColor Red">>,
    <<"    ", "Log", " \"FAILED - exit code: $connectResult\"">>,
    <<"}">>,
    <<>>,
    <<"Stop-Transcript">>,
    <<"Write-Host", " 'Log saved to: C:\\temp\\join-mesh.log' -ForegroundColor Gray">>,
    <<"Write-Host", " ''">>,
    <<"Read-Host 'Press Enter to exit'">>>>

\* provision_windows: the script is put together, then ssh_run(host, port,
\* mkdir_cmd), result not read
WindowsMkdir ==
  /\ pc = "mkdir"
  /\ \E ok \in BOOLEAN :
       GoOn("Set-Content", events \o <<Event("local", "script_content", TRUE, <<>>),
                                      Ssh("New-Item C:\\temp", ok, <<>>)>>)
  /\ UNCHANGED Untouched

\* provision_windows: subprocess.run(ssh_cmd, input=script_content); the
\* instructions; return False
WindowsSendScript ==
  /\ pc = "Set-Content"
  /\ \E ok \in BOOLEAN :
       WindowsReturned(events \o <<Event("ssh stdin", "Set-Content", ok, <<>>)>> \o
                       (IF ok THEN <<Say("Script created on Windows")>>
                        ELSE <<Say("Could not create script on Windows"),
                               Event("say", "MANUAL STEP: Run in PowerShell on Windows", TRUE,
                                     <<"& \"C:\\Program Files\\Tailscale\\tailscale.exe\" up --login-server=">>
                                     \o sess.server \o
                                     <<" ", "backtick", "\n", "  --authkey=", sess.auth_key,
                                       " --accept-routes --unattended">>)>>))
  /\ UNCHANGED Untouched

\* provision_all, up to the loop: (user@ip, port, name) of every registry entry
ProvisionAllStart(server, force) ==
  LET registry == load_hosts(hostsFile, env).val
      hosts == [i \in 1..Len(registry) |->
                  [host |-> registry[i].w.user.v \o <<"@">> \o registry[i].w.ip.v,
                   port |-> registry[i].w.port.v,
                   label |-> registry[i].w.name.v]]
  IN /\ pc = "idle"
     /\ IF registry = <<>>
        THEN /\ pc' = "done"
             /\ sess' = [NoSession EXCEPT !.cmd = "provision-all", !.exit = 1,
                                          !.outcome = "no hosts in registry"]
        ELSE /\ pc' = "next host"
             /\ sess' = [NoSession EXCEPT !.cmd = "provision-all", !.server = server,
                                          !.force = force, !.queue = hosts]
     /\ events' = <<>>
     /\ UNCHANGED Untouched

\* provision_all: `for host, port, label in hosts`, and the summary after
\* it, which ends with subprocess.run(["sudo", "headscale", "nodes", "list"],
\* timeout=10): the command returns, or TimeoutExpired is raised
NextHost ==
  /\ pc = "next host"
  /\ IF sess.queue = <<>>
     THEN \E ok \in BOOLEAN :
            LET run == <<Event("run", "headscale nodes list", ok, <<>>)>>
            IN IF ok THEN Ended(0, "summary", run) ELSE Ended(1, "TimeoutExpired", run)
     ELSE /\ pc' = "idempotency"
          /\ sess' = [sess EXCEPT !.host = Head(sess.queue).host,
                                  !.port = Head(sess.queue).port,
                                  !.label = Head(sess.queue).label,
                                  !.hostname = Head(sess.queue).label,
                                  !.os_type = "", !.auth_key = "", !.conflicts = <<>>,
                                  !.listed = FALSE,
                                  !.queue = Tail(@)]
          /\ events' = <<>>
  /\ UNCHANGED Untouched

NextProvision ==
  \/ \E host \in Targets, server \in ServerUrls, force \in BOOLEAN,
        skip_syncthing \in BOOLEAN : ProvisionStart(host, server, force, skip_syncthing)
  \/ \E server \in ServerUrls, force \in BOOLEAN : ProvisionAllStart(server, force)
  \/ NextHost
  \/ IdempotencyCheck
  \/ ConnectivityCheck
  \/ ProbeUname
  \/ ProbeEchoOs
  \/ ProbePowershell
  \/ IssueCredential
  \/ LinuxWhich
  \/ LinuxInstall
  \/ LinuxJoin
  \/ LinuxStatus
  \/ LinuxVerify
  \/ SyncthingWhich
  \/ SyncthingInstall
  \/ WindowsVpnConflicts
  \/ WindowsLanAccess
  \/ WindowsTestPath
  \/ WindowsInstall
  \/ WindowsSleep
  \/ WindowsRegistry
  \/ WindowsMkdir
  \/ WindowsSendScript

SpecProvision == InitProvision /\ [][NextProvision]_vars

\* ---------------------------------------------------------------------------
\* Properties of the provisioning session
\* ---------------------------------------------------------------------------

\* the events of the session so far whose kind is one of `acts`
EventsOf(acts) == {i \in 1..Len(events) : events[i].act \in acts}

\* a command sent to the target, as a command line or on standard input
RemoteCommand == {"ssh", "ssh stdin"}

\* the commands sent to the target so far
Sent == {events[i].cmd : i \in EventsOf(RemoteCommand)}

\* the idempotency key of a provision command: the target as typed when it
\* is a registered alias, else the host name taken from the target
IdempotencyKey ==
  IF get_host(hostsFile, env, sess.original_name).ret # PyNone
  THEN sess.original_name
  ELSE extract_hostname(sess.original_name)

\* the member list the coordination server returned names the key, ignoring case
KeyIsListed ==
  /\ EventsOf({"list_nodes"}) # {}
  /\ \E i \in EventsOf({"list_nodes"}) :
       \E j \in 1..Len(events[i].out) : Lower(events[i].out[j]) = Lower(IdempotencyKey)

\* C14: without force, when the idempotency key (the alias as typed for a
\* registered alias) equals, ignoring case, a display name of the member
\* list, provision reports "already provisioned" and ends with exit code 0,
\* having sent no remote command and issued no join credential.
C14_IdempotencyShortcut ==
  (sess.cmd = "provision" /\ ~sess.force /\ KeyIsListed) =>
    /\ pc = "done"
    /\ sess.exit = 0
    /\ sess.outcome = "already provisioned"
    /\ events[Len(events)] = Say("already provisioned")
    /\ EventsOf(RemoteCommand \cup {"create_preauth_key"}) = {}

\* the registered alias "B" (address "h") was typed, the member list holds
\* "b" and not "h", and the command has ended
C14_Witness ==
  /\ sess.cmd = "provision" /\ ~sess.force /\ pc = "done"
  /\ sess.original_name = <<"B">>
  /\ sess.host = <<"u", "@", "h">>
  /\ events[1] = Event("list_nodes", "", TRUE, <<<<"b">>>>)
  /\ sess.outcome = "already provisioned"

\* the step of the session an event belongs to ("" for messages and for the
\* summary of provision_all)
StepOf(e) ==
  CASE e.act = "list_nodes" -> "idempotency"
    [] e.act = "create_preauth_key" -> "credential"
    [] e.act \in {"local", "ssh stdin"} -> "configure"
    [] e.act = "ssh" ->
         (CASE e.cmd = "echo connected" -> "connectivity"
            [] e.cmd \in {"uname -s", "echo %OS%", "powershell $env:OS"} -> "detection"
            [] e.cmd = "tailscale ip -4" -> "verify"
            [] e.cmd \in {"which syncthing", "apt-get install syncthing"} -> "file sync"
            [] OTHER -> "configure")
    [] OTHER -> ""

\* an order of the steps: a sequence of sets of steps, each set one stage
\* the position of a step in an order (0 when the order does not hold it)
RankIn(order, st) ==
  IF \E k \in 1..Len(order) : st \in order[k]
  THEN CHOOSE k \in 1..Len(order) : st \in order[k]
  ELSE 0

\* the events from the i-th on keep to `order`, when the stage of the last
\* step before them is `top` and the stages run before them are `seen`:
\* no step of a stage before `top`, no step of a stage unless every earlier
\* stage, `skipped` ones aside, has run, and no second call of a step in `single`
RECURSIVE KeepsTo(_, _, _, _, _, _)
KeepsTo(order, skipped, single, i, top, seen) ==
  IF i > Len(events)
  THEN TRUE
  ELSE LET st == StepOf(events[i])
           r == RankIn(order, st)
       IN IF st = ""
          THEN KeepsTo(order, skipped, single, i + 1, top, seen)
          ELSE /\ r > 0
               /\ r >= top
               /\ st \in single => r > top
               /\ \A k \in 1..(r - 1) : k \in seen \/ order[k] \subseteq skipped
               /\ KeepsTo(order, skipped, single, i + 1, r, seen \cup {r})

\* the order as the specification words it; the optional file-sync daemon
\* install belongs to configure on the Unix branch
SpecifiedOrder ==
  <<{"connectivity"}, {"idempotency"}, {"detection"}, {"credential"},
    {"configure", "file sync"}, {"verify"}>>

CodeOrder ==
  <<{"idempotency"}, {"connectivity"}, {"detection"}, {"credential"}, {"configure"},
    {"verify"}, {"file sync"}>>

ConnectivityFailed(e) == e.act = "ssh" /\ e.cmd = "echo connected" /\ ~e.ok

\* the last probe of detect_remote_os has come back without a signature
NoFamilyDetected(e) ==
  e.act = "ssh" /\ e.cmd = "powershell $env:OS" /\ FamilyOfWindowsProbe(e.ok, e.out) = ""

CredentialFailed(e) == e.act = "create_preauth_key" /\ ~e.ok

\* C16: in provision, when the connectivity check fails, OS detection yields
\* no family, or credential issuance returns no credential, the command ends
\* with a non-zero exit code and no later step runs: nothing but messages
\* follows the failed step, no credential is issued after a connectivity or
\* detection failure, and no install, join or configuration command is sent
\* after a credential failure.
C16_FirstTerminalConditionAborts ==
  sess.cmd = "provision" =>
    \A i \in 1..Len(events) :
      LET e == events[i]
      IN /\ (ConnectivityFailed(e) \/ NoFamilyDetected(e) \/ CredentialFailed(e)) =>
              /\ pc = "done"
              /\ sess.exit > 0
              /\ \A j \in (i + 1)..Len(events) : events[j].act = "say"
         /\ (ConnectivityFailed(e) \/ NoFamilyDetected(e)) =>
              EventsOf({"create_preauth_key"}) = {}
         /\ CredentialFailed(e) =>
              \A j \in 1..Len(events) :
                StepOf(events[j]) \notin {"configure", "verify", "file sync"}

\* no credential came back for a host that answered and was detected
C16_Witness ==
  /\ sess.cmd = "provision" /\ pc = "done" /\ sess.exit = 1
  /\ sess.os_type = "linux"
  /\ \E i \in 1..Len(events) : CredentialFailed(events[i])
  /\ \E i \in 1..Len(events) : events[i] = Ssh("echo connected", TRUE, <<>>)

\* the probes of OS detection, in the order of detect_remote_os
Probes == <<"uname -s", "echo %OS%", "powershell $env:OS">>

\* the probes sent so far in this session: the positions of their events
ProbesSent == {i \in 1..Len(events) : events[i].act = "ssh" /\ events[i].cmd \in {Probes[k] : k \in 1..Len(Probes)}}

\* the families whose signature a probe's answer shows; none when the probe failed
FamiliesShown(e) ==
  IF ~e.ok THEN {}
  ELSE IF e.cmd = "uname -s"
  THEN {f \in {"linux", "macos", "windows"} :
          \/ f = "linux" /\ HasSignature(e.out, "linux")
          \/ f = "macos" /\ HasSignature(e.out, "darwin")
          \/ f = "windows" /\ \E sig \in {"msys", "mingw", "cygwin"} : HasSignature(e.out, sig)}
  ELSE IF HasSignature(e.out, "windows") THEN {"windows"} ELSE {}

\* C17: OS detection sends its probes in the order uname, echo %OS%,
\* powershell $env:OS; the first probe that succeeds with a recognisable
\* signature decides the family and no later probe is sent (an uname output
\* containing "linux" gives linux and no Windows probe); the result is
\* "none detected" exactly when no probe returned a recognisable signature.
C17_ProbeOrder ==
  LET sent == ProbesSent
      n == Cardinality(sent)
      shown == [i \in sent |-> FamiliesShown(events[i])]
      over == sent # {} /\ pc \notin {"uname", "echo %OS%", "powershell $env:OS"}
  IN /\ n <= Len(Probes)
     /\ \A i \in sent : events[i].cmd = Probes[Cardinality({j \in sent : j <= i})]
     /\ \A i \in sent :
          shown[i] # {} =>
            /\ \A j \in sent : j <= i
            /\ sess.os_type \in shown[i]
            /\ "linux" \in shown[i] => sess.os_type = "linux"
     /\ over =>
          /\ sess.os_type = "" <=> \A i \in sent : shown[i] = {}
          /\ sess.os_type = "" => n = Len(Probes)
          /\ (sess.os_type = "" /\ sess.cmd = "provision") => sess.outcome = "no OS detected"

\* uname answered "CYGWIN_NT Linux": linux, and the session went on without
\* a Windows probe
C17_Witness ==
  /\ pc = "credential"
  /\ sess.os_type = "linux"
  /\ \E i \in 1..Len(events) :
       /\ events[i] = Ssh("uname -s", TRUE, <<"CYGWIN_NT", "Linux">>)
       /\ ProbesSent = {i}

\* the events of one step of the session
StepEvents(st) == {i \in 1..Len(events) : StepOf(events[i]) = st}

\* C18: with force the member-list shortcut is never taken, even when the
\* coordination server lists the alias: the list is not asked for, and
\* connectivity, detection, credential and configure run, each unless an
\* earlier one ended the session; and the install checks still run: on the
\* Unix branch configure starts with the presence check, and the installer
\* is sent only after a presence check that failed, never when the VPN
\* client is on PATH.
C18_ForceBypassesShortcut ==
  (sess.force /\ ~(sess.cmd = "provision-all" /\ pc = "done")) =>
    LET conn == StepEvents("connectivity")
        det == StepEvents("detection")
        cred == StepEvents("credential")
        conf == StepEvents("configure")
    IN /\ sess.outcome # "already provisioned"
       /\ EventsOf({"list_nodes"}) = {}
       /\ pc \notin {"idle", "idempotency", "connectivity", "next host"} => conn # {}
       /\ (\E i \in conn : events[i].ok) => (pc = "uname" \/ det # {})
       /\ sess.os_type # "" => (pc = "credential" \/ cred # {})
       /\ ((\E i \in cred : events[i].ok) /\ sess.os_type \in {"linux", "windows"})
            => (pc \in {"which tailscale", "vpn conflicts"} \/ conf # {})
       /\ (sess.os_type = "linux" /\ conf # {}) =>
            LET first == CHOOSE i \in conf : \A j \in conf : i <= j
            IN /\ events[first].cmd = "which tailscale"
               /\ \A i \in conf : events[i].cmd = "install.sh" =>
                    /\ ~events[first].ok
                    /\ \A j \in conf : j < i => j = first

\* with force, a host the coordination server lists under the alias typed
\* went through every step; the VPN client was on PATH and no installer ran
C18_Witness ==
  /\ sess.cmd = "provision" /\ sess.force /\ sess.listed
  /\ pc = "done" /\ sess.outcome = "complete"
  /\ \E i \in 1..Len(events) : events[i] = Ssh("which tailscale", TRUE, <<>>)
  /\ \A i \in 1..Len(events) : events[i].cmd # "install.sh"

\* a probe of check_windows_vpn_conflicts has shown a conflicting VPN
ConflictSeen ==
  \E j \in EventsOf({"ssh"}) : \E k \in 1..Len(VpnProbes) :
    events[j].cmd = VpnProbes[k].cmd /\ VpnDetected(k, events[j])

\* the reachability probe from the target to the health endpoint has failed
ProbeOfHealthFailed(e) ==
  /\ e.act = "ssh" /\ e.cmd = "curl health"
  /\ ~e.ok \/ \A k \in 1..Len(e.out) : e.out[k] # "200"

\* C19: on the Windows branch, when a conflicting VPN is detected and the
\* probe of the coordination server's health endpoint from the target fails,
\* the session of that host ends with the message that the VPN is blocking
\* access, and nothing follows the probe but messages: no client install, no
\* persistent-configuration write, no script generation or transmission.
C19_VpnIsBlocking ==
  \A i \in 1..Len(events) :
    (ProbeOfHealthFailed(events[i]) /\ ConflictSeen) =>
      /\ sess.os_type = "windows"
      /\ pc \in {"done", "next host"}
      /\ i < Len(events) /\ events[i + 1] = Say("VPN is blocking access")
      /\ \A j \in (i + 1)..Len(events) : events[j].act = "say"
      /\ Sent \cap {"Test-Path", "winget install", "Set-ItemProperty",
                    "New-Item C:\\temp", "Set-Content"} = {}
      /\ EventsOf({"local", "ssh stdin"}) = {}
      /\ sess.cmd = "provision-all" =>
           sess.results[Len(sess.results)] =
             [label |-> sess.label, success |-> FALSE, status |-> "failed", os |-> "windows"]

\* NordVPN is running on the target, and the health endpoint answered 000
C19_Witness ==
  /\ sess.cmd = "provision" /\ pc = "done"
  /\ sess.conflicts = <<"NordVPN">>
  /\ \E i \in 1..Len(events) : events[i] = Ssh("curl health", TRUE, <<"000">>)

\* provision has entered provision_windows: the host was detected as
\* Windows and create_preauth_key returned a credential
InWindowsBranch ==
  /\ sess.cmd = "provision"
  /\ sess.os_type = "windows"
  /\ \E i \in EventsOf({"create_preauth_key"}) : events[i].ok

\* a step of the Windows branch that did not complete
WindowsStepFailed(e) ==
  /\ ~e.ok
  /\ \/ e.act = "ssh" /\ e.cmd \in {"winget install", "Set-ItemProperty"}
     \/ e.act = "ssh stdin"

\* C20: for a host detected as Windows, provision never returns a hard
\* failure from the Windows branch: whichever of its steps does not complete
\* (client install, persistent configuration, script transmission), the
\* command never exits with a non-zero code, and ends in the
\* manual-completion-required outcome with exit code 0.
C20_WindowsNeverHardFailure ==
  InWindowsBranch =>
    /\ sess.exit \in {-1, 0}
    /\ pc = "done" =>
         /\ sess.exit = 0
         /\ sess.outcome = "windows setup incomplete"
         /\ events[Len(events)] = Say("Windows Setup Incomplete")
    /\ pc = "done" \/ ENABLED NextProvision

\* the persistent configuration was not written and the script did not
\* reach the target, and the command has ended
C20_Witness ==
  /\ InWindowsBranch /\ pc = "done" /\ sess.exit = 0
  /\ \E i \in 1..Len(events) : events[i].cmd = "Set-ItemProperty" /\ WindowsStepFailed(events[i])
  /\ \E i \in 1..Len(events) : events[i].act = "ssh stdin" /\ WindowsStepFailed(events[i])

\* ---------------------------------------------------------------------------
\* Outcomes and exit codes
\* ---------------------------------------------------------------------------

\* the message of the Windows branch's terminal failure was printed
VpnIsBlocking == \E i \in EventsOf({"say"}) : events[i] = Say("VPN is blocking access")

\* the hard failures of a session, read off what happened in it:
\* connectivity failure, undetectable or unsupported OS, credential failure,
\* Unix install or join failure, the Windows VPN-is-blocking failure
HardFailure ==
  \/ \E i \in 1..Len(events) :
       \/ ConnectivityFailed(events[i])
       \/ NoFamilyDetected(events[i])
       \/ CredentialFailed(events[i])
       \/ events[i].act = "ssh" /\ events[i].cmd = "install.sh" /\ ~events[i].ok
       \/ /\ events[i].act = "ssh" /\ events[i].cmd = "tailscale status"
          /\ ~(events[i].ok /\ Contains(ServerHostOf(sess.server), events[i].out))
  \/ sess.os_type = "macos" /\ EventsOf({"create_preauth_key"}) # {}
  \/ VpnIsBlocking

\* C21: the exit code of provision is 0 exactly when the session ends in
\* success, already-provisioned or Windows manual-step-pending, and non-zero
\* on every hard failure (connectivity, undetectable or unsupported OS,
\* credential, Unix install or join, Windows VPN-is-blocking).
C21_ExitCode ==
  (sess.cmd = "provision" /\ pc = "done") =>
    /\ sess.exit = 0 <=> ~HardFailure
    /\ sess.exit = 0 <=>
         sess.outcome \in {"complete", "already provisioned", "windows setup incomplete"}

\* the Windows branch went through: every automated step completed, the
\* script is on the target, one manual step is left
ManualStepPending ==
  /\ sess.os_type = "windows"
  /\ \E i \in EventsOf({"ssh stdin"}) : events[i].ok
  /\ \A i \in 1..Len(events) : ~WindowsStepFailed(events[i])

\* how a result of provision_all is shown in the summary: the mark and the status
Shown(result) == <<result.success, result.status>>

\* C22: manual-step-pending is an outcome distinct from failure in provision
\* and in provision-all: a Windows host whose automated steps all completed
\* is never recorded or reported with the outcome of a host that hard-failed
\* (one stopped by the VPN-is-blocking failure, or by a failed install).
C22_ManualStepDistinct ==
  /\ (sess.cmd = "provision" /\ pc = "done" /\ HardFailure) =>
       sess.outcome # "windows setup incomplete"
  /\ (sess.cmd = "provision-all" /\ pc = "next host" /\ sess.results # <<>> /\ HardFailure) =>
       LET rec == sess.results[Len(sess.results)]
       IN <<rec.success, rec.status, rec.os>> # <<FALSE, "failed", "windows">>
  /\ (sess.cmd = "provision-all" /\ pc = "next host" /\ ManualStepPending) =>
       LET n == Len(sess.results)
       IN /\ Shown(sess.results[n]) # <<FALSE, "failed">>
          /\ \A k \in 1..(n - 1) :
               (sess.results[k].os = "linux" /\ ~sess.results[k].success) =>
                 Shown(sess.results[k]) # Shown(sess.results[n])

\* ---------------------------------------------------------------------------
\* provision-all over three registered hosts
\* ---------------------------------------------------------------------------

\* a registry of three hosts, as save_hosts writes it
BatchRegistry ==
  save_hosts(<<[k |-> PyStr(<<"B">>),
                w |-> [name |-> PyStr(<<"B">>), ip |-> PyStr(<<"h">>),
                       port |-> PyInt(2222), user |-> PyStr(<<"u">>)]],
               [k |-> PyStr(<<"w">>),
                w |-> [name |-> PyStr(<<"w">>), ip |-> PyStr(<<"g">>),
                       port |-> PyInt(22), user |-> PyStr(<<"v">>)]],
               [k |-> PyStr(<<"c">>),
                w |-> [name |-> PyStr(<<"c">>), ip |-> PyStr(<<"i">>),
                       port |-> PyInt(22), user |-> PyStr(<<"u">>)]]>>)

\* the names of the registry, in the order of the file
BatchOrder == <<<<"B">>, <<"w">>, <<"c">>>>

InitBatch ==
  /\ hostsFile = BatchRegistry
  /\ sshConfig = MissingConfig
  /\ env = [MESH_DEFAULT_USER |-> PyNone, USER |-> PyStr(<<"u">>)]
  /\ last = NoCall
  /\ prevHosts = hostsFile
  /\ prevSsh = sshConfig
  /\ steps = 0
  /\ ProcIdle

\* `mesh remote provision-all`, with or without --server, and every step of
\* its loop (the file-sync daemon install is not part of provision_all)
NextBatch ==
  \/ \E server \in ServerUrls : ProvisionAllStart(server, FALSE)
  \/ NextHost
  \/ IdempotencyCheck
  \/ ConnectivityCheck
  \/ ProbeUname
  \/ ProbeEchoOs
  \/ ProbePowershell
  \/ IssueCredential
  \/ LinuxWhich
  \/ LinuxInstall
  \/ LinuxJoin
  \/ LinuxStatus
  \/ LinuxVerify
  \/ WindowsVpnConflicts
  \/ WindowsLanAccess
  \/ WindowsTestPath
  \/ WindowsInstall
  \/ WindowsSleep
  \/ WindowsRegistry
  \/ WindowsMkdir
  \/ WindowsSendScript

SpecBatch == InitBatch /\ [][NextBatch]_vars

\* the status query answered and server_url.split("//")[1] raised IndexError
ExceptionRaised ==
  /\ ServerHostOf(sess.server) = <<"IndexError">>
  /\ \E i \in EventsOf({"ssh"}) : events[i].cmd = "tailscale status" /\ events[i].ok

\* C23: provision-all records exactly one outcome per registered host, in
\* registry order; a terminal failure or an exception raised while host i
\* is processed is recorded as the failure of host i and is not propagated,
\* and every later host is still processed: the command ends only after the
\* summary, with one outcome for each of the three hosts.
C23_BatchIsolation ==
  sess.cmd = "provision-all" =>
    LET n == Len(sess.results)
        running == IF pc \in {"next host", "done"} THEN 0 ELSE 1
    IN /\ n + running + Len(sess.queue) = Len(BatchOrder)
       /\ \A k \in 1..n : sess.results[k].label = BatchOrder[k]
       /\ \A k \in 1..Len(sess.queue) : sess.queue[k].label = BatchOrder[n + running + k]
       /\ running = 1 => sess.label = BatchOrder[n + 1]
       /\ (pc = "next host" /\ n > 0) =>
            /\ sess.results[n].label = sess.label
            /\ HardFailure => ~sess.results[n].success
            /\ ExceptionRaised =>
                 sess.results[n] = [label |-> sess.label, success |-> FALSE,
                                    status |-> "list index out of range", os |-> ""]
       /\ pc = "done" => n = Len(BatchOrder)

\* three hosts, an exception while the second was processed: three outcomes,
\* the second failed, the first and the third provisioned
C23_Witness ==
  /\ sess.cmd = "provision-all" /\ pc = "done"
  /\ Len(sess.results) = 3
  /\ sess.results[1] = [label |-> <<"B">>, success |-> TRUE, status |-> "provisioned",
                        os |-> "linux"]
  /\ sess.results[2] = [label |-> <<"w">>, success |-> FALSE,
                        status |-> "list index out of range", os |-> ""]
  /\ sess.results[3] = [label |-> <<"c">>, success |-> TRUE, status |-> "provisioned",
                        os |-> "linux"]

\* a result of provision_all that is a hard failure whatever happened on the
\* host: not a success, and not a Windows host (whose record does not say
\* whether a manual step is pending)
RecordedHardFailure(result) == ~result.success /\ result.os # "windows"

\* C24: provision-all returns a non-zero exit code when at least one host's
\* outcome is a hard failure, and 0 when every host ended in success,
\* already-provisioned or manual-step-pending.
C24_BatchExitCode ==
  (sess.cmd = "provision-all" /\ pc = "done" /\ sess.results # <<>>) =>
    /\ (\E k \in 1..Len(sess.results) : RecordedHardFailure(sess.results[k])) =>
         sess.exit # 0
    /\ (\A k \in 1..Len(sess.results) : sess.results[k].success) => sess.exit = 0

\* the text holds the join credential
HoldsKey(text) == \E k \in 1..Len(text) : text[k] = TheKey

\* a line of the script that writes to the log or the console
IsLogOrConsole(line) ==
  \E k \in 1..Len(line) :
    /\ line[k] \in {"Log", "Write-Host"}
    /\ \A j \in 1..(k - 1) : Strip(<<line[j]>>) = <<>>

\* C25: on the Windows path the join credential appears in the generated
\* script only as the value handed to the join command (the assignment of
\* $AuthKey, used by the tailscale up line alone); no log or console
\* statement of the script holds it, and no message printed on the
\* operator's terminal during the Windows branch holds it, on any path.
C25_CredentialConfidential ==
  sess.os_type = "windows" =>
    /\ \A i \in EventsOf({"say"}) : ~HoldsKey(events[i].out)
    /\ pc = "Set-Content" =>
         LET lines == script_lines(sess.server, sess.auth_key, sess.conflicts)
         IN \A n \in 1..Len(lines) :
              /\ HoldsKey(lines[n]) => lines[n] = <<"$AuthKey", " = '", TheKey, "'">>
              /\ IsLogOrConsole(lines[n]) =>
                   \A k \in 1..Len(lines[n]) : lines[n][k] \notin {TheKey, "$AuthKey"}
              /\ (\E k \in 2..Len(lines[n]) : lines[n][k] = "$AuthKey") =>
                   lines[n][1] = "$upOutput = & $TailscaleExe up --login-server=$ServerUrl --authkey="

\* the address of the coordination server in a --server value: the value
\* without its scheme and its port
AddressOf(url) ==
  LET slashes == {i \in 1..(Len(url) - 1) : url[i] = "/" /\ url[i + 1] = "/"}
      rest == IF slashes = {} THEN url
              ELSE SubSeq(url, (CHOOSE i \in slashes : \A j \in slashes : i <= j) + 2, Len(url))
      colons == Positions(rest, ":")
  IN IF colons = {} THEN rest
     ELSE SubSeq(rest, 1, (CHOOSE i \in colons : \A j \in colons : i <= j) - 1)

\* the session of the current host is over, and how it ended
SessionOver ==
  \/ sess.cmd = "provision" /\ pc = "done"
  \/ sess.cmd = "provision-all" /\ pc = "next host" /\ sess.results # <<>>

SessionSucceeded ==
  IF sess.cmd = "provision" THEN sess.exit = 0
  ELSE sess.results[Len(sess.results)].success

\* the remote command cmd was sent and failed
RemoteFailed(cmd) ==
  \E i \in EventsOf({"ssh"}) : events[i].cmd = cmd /\ ~events[i].ok

\* C26: on the Unix branch, when the join command fails the branch succeeds
\* if and only if the follow-up status query succeeds and its output
\* contains the coordination server's address; otherwise the host is a
\* terminal failure. When the installer fails, the branch fails and the
\* join command is never sent.
C26_UnixJoinOutcome ==
  /\ (SessionOver /\ RemoteFailed("tailscale up")) =>
       (SessionSucceeded <=>
          \E i \in EventsOf({"ssh"}) :
            /\ events[i].cmd = "tailscale status"
            /\ events[i].ok
            /\ Contains(AddressOf(sess.server), events[i].out))
  /\ RemoteFailed("install.sh") =>
       /\ "tailscale up" \notin Sent
       /\ SessionOver => ~SessionSucceeded

\* the lines of a text, each ended by "\n" or by the end of the text
TextLines(text) ==
  IF text = <<>> THEN <<>>
  ELSE IF text[Len(text)] = "\n" THEN SplitLines(SubSeq(text, 1, Len(text) - 1))
  ELSE SplitLines(text)

\* the lines of a text that are not blank, in order
NonBlank(lines) == SelectSeq(lines, LAMBDA l : l # <<>>)

RECURSIVE BlankRuns(_, _)
\* the lengths of the runs of blank lines of a text: before its first
\* non-blank line, between its non-blank lines, after the last one
BlankRuns(lines, run) ==
  IF lines = <<>> THEN <<run>>
  ELSE IF Head(lines) = <<>> THEN BlankRuns(Tail(lines), run + 1)
  ELSE <<run>> \o BlankRuns(Tail(lines), 0)

\* C27: after remove_ssh_host removed a block, every run of 3 or more blank
\* lines is collapsed to at most 2 and leading blank lines are trimmed; apart
\* from that, the content outside the removed block is unchanged: the same
\* non-blank lines, and between them every run of fewer than 3 blank lines
\* as long as it was.
C27_BlankLineHandling ==
  (last.op = "remove_ssh_host" /\ last.ret = PyBool(TRUE)) =>
    LET outside == TextLines(JoinLines(KeepOutsideBlock(SplitLines(prevSsh.text),
                                                        StartLineOf(last.name),
                                                        EndLineOf(last.name), FALSE)))
        after == TextLines(sshConfig.text)
        before_runs == BlankRuns(outside, 0)
        after_runs == BlankRuns(after, 0)
    IN /\ NonBlank(after) = NonBlank(outside)
       /\ after_runs[1] = 0
       /\ \A k \in 2..(Len(after_runs) - 1) :
            IF before_runs[k] >= 3 THEN after_runs[k] <= 2
            ELSE after_runs[k] = before_runs[k]

\* the steps the session of the current host went through
StepsRun == {StepOf(events[i]) : i \in 1..Len(events)} \ {""}

\* what `provision h` does for a host, as far as a finished session shows
\* it: the steps in the order of CodeOrder, the file-sync daemon install
\* after a successful Unix branch unless --skip-syncthing was given, and
\* success for every session but those ended by a failed check or step
\* (the manual step of a Windows host is not one)
RunsAsProvision ==
  /\ KeepsTo(CodeOrder, IF sess.force THEN {"idempotency"} ELSE {},
             {"connectivity", "idempotency", "credential", "verify"}, 1, 0, {})
  /\ (sess.os_type = "linux" /\ SessionSucceeded /\ ~sess.skip_syncthing) =>
       "file sync" \in StepsRun
  /\ SessionSucceeded <=> ~(HardFailure /\ ~VpnIsBlocking)

\* C28: provision-all runs for every registered host the state machine of
\* `provision h` with the same flags: the same ordered sequence of checks
\* and remote steps, the optional file-sync daemon install on the Unix
\* branch included, and the same terminal outcome for the host.
C28_BatchSameStateMachine ==
  SessionOver => RunsAsProvision

\* C30: create_preauth_key is called only after the connectivity check and
\* the OS detection succeeded, and only for a host of a family the tool
\* configures (linux or windows): no credential is asked for a host that is
\* then rejected as unsupported.
C30_CredentialOnlyForConfigurable ==
  \A i \in EventsOf({"create_preauth_key"}) :
    /\ \E j \in 1..(i - 1) :
         events[j].act = "ssh" /\ events[j].cmd = "echo connected" /\ events[j].ok
    /\ \E j \in 1..(i - 1) : StepOf(events[j]) = "detection" /\ events[j].ok
    /\ sess.os_type \in {"linux", "windows"}

----------------------------------------------------------------------------
(* add_host and remove_host on a store that holds entries already, written *)
(* by the registry or by hand: specification SpecFrame.                     *)

\* the store after `add_host a h 22 u` and `add_host ab 10 2222` (no user)
WrittenStore(e) ==
  add_host(add_host(MissingFile, e, nA, <<"h">>, 22, PyStr(<<"u">>)).file,
           e, nAB, <<"1", "0">>, 2222, PyNone).file

InitFrame ==
  /\ env \in Envs
  /\ hostsFile \in {WrittenStore(env), FileOf(docMalformedEntries), FileOf(docPartialEntry)}
  /\ sshConfig = MissingConfig
  /\ last = NoCall
  /\ prevHosts = hostsFile
  /\ prevSsh = MissingConfig
  /\ steps = 0
  /\ ProcIdle

NextFrame ==
  \/ \E name \in Names, d \in Descs : AddHost(name, d)
  \/ \E name \in Names : RemoveHost(name)

SpecFrame == InitFrame /\ [][NextFrame]_vars

\* no such entry, no such field
Absent == [t |-> "absent", v |-> <<>>]

\* what the file records for the name m: whether the hosts mapping has the
\* key, and the ip, port and user fields of its value
Recorded(file, m) ==
  LET entries == ConstructItems(FileEntries(file), <<>>)
      rec == DictGet(entries, PyStr(m), Absent)
      field(key) == IF rec.t = "dict" THEN DictGet(rec.v, PyStr(key), Absent) ELSE Absent
  IN [present |-> DictHas(entries, PyStr(m)),
      ip |-> field(K_ip), port |-> field(K_port), user |-> field(K_user)]

\* C29: add_host(n, ...) and remove_host(n) leave every other entry of the
\* backing store as it was: for every name m other than n the store records
\* the same presence and the same address, port and user before and after.
C29_RegistryFrame ==
  last.op \in {"add_host", "remove_host"} =>
    \A m \in Names \ {last.name} : Recorded(hostsFile, m) = Recorded(prevHosts, m)

====
